---------------------------- MODULE Spec2Model ----------------------------
(***************************************************************************)
(* DoseClock: dose scheduling, dose status and confirmation.               *)
(*                                                                         *)
(* Instants are integers counting minutes.  A Python datetime is modelled  *)
(* by its minute, timedelta(minutes=m) by m, timedelta(hours=h) by 60*h    *)
(* and timedelta(days=d) by 1440*d.  frecuencia_horas holds whole hours,   *)
(* for which float(Decimal) and timedelta(hours=...) are exact.            *)
(* A nullable column holds <<>> for NULL/None and <<v>> for the value v.   *)
(***************************************************************************)
EXTENDS Integers, Sequences, FiniteSets, TLC

VARIABLES
    now,             \* timezone.now(): the clock reading
    tratamientos,    \* table Tratamiento: sequence of rows, the index is the pk
    tomas,           \* table Toma: sequence of rows, the index is the pk
    notificaciones,  \* table Notificacion: sequence of rows
    config,          \* the ConfiguracionUsuario row of the user
    chain,           \* doses obtained by chaining calculate_next_dose
    telegram,        \* the Telegram channel: the messages it has delivered, in
                     \* order, and the reminders it has failed to deliver
    procs,           \* the reminder runs in progress: position and locals
    last             \* the last call made and what it returned

vars == <<now, tratamientos, tomas, notificaciones, config, chain, telegram,
          procs, last>>

----------------------------------------------------------------------------
(* Values *)

None == <<>>

Some(v) == <<v>>

Minutes(m) == m

Hours(h) == 60 * h

Days(d) == 24 * 60 * d

\* settings.DOSECLOCK_SETTINGS.get('AUTO_MISS_MINUTES', 20)
AUTO_MISS_MINUTES == 20

\* settings.DOSECLOCK_SETTINGS.get('CONFIRM_WINDOW_MINUTES', 5)
CONFIRM_WINDOW_MINUTES == 5

ESTADO_CHOICES == {"pendiente", "confirmada", "tarde", "no_tomada"}

MODO_CALCULO_CHOICES == {"programada", "confirmacion"}

\* Python's  a or b  on an optional datetime (a datetime is always truthy)
OrElse(opt, dflt) == IF opt # None THEN opt[1] ELSE dflt

----------------------------------------------------------------------------
(* utils/calculos_tomas.py *)

\* The mutant: the base instant ignores modo_calculo.
calculate_next_dose_anymode(treatment, last_dose) ==
    IF last_dose = None
    THEN treatment.fecha_hora_inicio
    ELSE OrElse(last_dose[1].hora_confirmada, last_dose[1].hora_programada)
             + Hours(treatment.frecuencia_horas)

\* The mutant: the base instant is always the scheduled time.
calculate_next_dose_scheduled(treatment, last_dose) ==
    IF last_dose = None
    THEN treatment.fecha_hora_inicio
    ELSE last_dose[1].hora_programada + Hours(treatment.frecuencia_horas)

\* calculate_next_dose(treatment, last_dose=None); last_dose is None or <<row>>
calculate_next_dose(treatment, last_dose) ==
    IF last_dose = None
    THEN treatment.fecha_hora_inicio
    ELSE LET base_time ==
                 IF treatment.modo_calculo = "programada"
                 THEN last_dose[1].hora_programada
                 ELSE OrElse(last_dose[1].hora_confirmada,
                             last_dose[1].hora_programada)
         IN  base_time + Hours(treatment.frecuencia_horas)

\* The mutant: the window excludes its last instant.
is_dose_within_treatment_open(treatment, dose_time) ==
    IF treatment.es_indefinido THEN TRUE
    ELSE IF treatment.duracion_dias = None THEN TRUE
    ELSE dose_time < treatment.fecha_hora_inicio + Days(treatment.duracion_dias[1])

\* is_dose_within_treatment(treatment, dose_time)
is_dose_within_treatment(treatment, dose_time) ==
    IF treatment.es_indefinido THEN TRUE
    ELSE IF treatment.duracion_dias = None THEN TRUE
    ELSE LET end_time == treatment.fecha_hora_inicio
                             + Days(treatment.duracion_dias[1])
         IN  dose_time <= end_time

\* The mutant: the skip loop stops at an instant equal to the clock.
RECURSIVE SkipPastNowWeak(_, _, _)
SkipPastNowWeak(next_time, frequency_hours, current_time) ==
    IF next_time < current_time
    THEN SkipPastNowWeak(next_time + Hours(frequency_hours), frequency_hours,
                         current_time)
    ELSE next_time

\* calculate_all_future_doses, the loop  while next_time <= current_time
RECURSIVE SkipPastNow(_, _, _)
SkipPastNow(next_time, frequency_hours, current_time) ==
    IF next_time <= current_time
    THEN SkipPastNow(next_time + Hours(frequency_hours), frequency_hours,
                     current_time)
    ELSE next_time

\* calculate_all_future_doses, the loop  for _ in range(count)
RECURSIVE GenerateDoses(_, _, _)
GenerateDoses(treatment, next_time, count) ==
    IF count <= 0 THEN <<>>
    ELSE IF ~ is_dose_within_treatment(treatment, next_time) THEN <<>>
    ELSE <<next_time>> \o
         GenerateDoses(treatment,
                       next_time + Hours(treatment.frecuencia_horas),
                       count - 1)

\* Toma.objects.filter(tratamiento=treatment): the pks
TomasOf(rows, pk) ==
    {i \in DOMAIN rows : rows[i].tratamiento = Some(pk)}

\* .order_by('-hora_programada').first(): a row of greatest hora_programada;
\* among rows of equal hora_programada the database returns any of them.
LastDoseChoices(rows, pk) ==
    IF TomasOf(rows, pk) = {} THEN {None}
    ELSE {Some(rows[i]) : i \in
             {j \in TomasOf(rows, pk) :
                 \A k \in TomasOf(rows, pk) :
                     rows[k].hora_programada <= rows[j].hora_programada}}

\* calculate_all_future_doses, the base instant
BaseTime(treatment, last_dose) ==
    IF last_dose # None
    THEN IF treatment.modo_calculo = "programada"
         THEN last_dose[1].hora_programada
         ELSE OrElse(last_dose[1].hora_confirmada, last_dose[1].hora_programada)
    ELSE treatment.fecha_hora_inicio

\* calculate_all_future_doses(treatment, count), given the row .first() returned
calculate_all_future_doses(treatment, last_dose, count, current_time) ==
    GenerateDoses(treatment,
                  SkipPastNow(BaseTime(treatment, last_dose),
                              treatment.frecuencia_horas, current_time),
                  count)

\* get_doses_for_date: datetime.combine(target_date, time.min); a date is the
\* number of its day, day 0 beginning at instant 0
day_start(target_date) == Days(target_date)

\* get_doses_for_date: datetime.combine(target_date, time.max), 23:59:59.999999;
\* the last whole minute of the day
day_end(target_date) == Days(target_date) + 1439

\* The mutant: the advance loop also leaves the instant at the day's start.
RECURSIVE AdvanceToDay_past(_, _, _)
AdvanceToDay_past(current_time, frequency_hours, start) ==
    IF current_time <= start
    THEN AdvanceToDay_past(current_time + Hours(frequency_hours),
                           frequency_hours, start)
    ELSE current_time

\* get_doses_for_date, the loop  while current_time < day_start
RECURSIVE AdvanceToDay(_, _, _)
AdvanceToDay(current_time, frequency_hours, start) ==
    IF current_time < start
    THEN AdvanceToDay(current_time + Hours(frequency_hours), frequency_hours,
                      start)
    ELSE current_time

\* get_doses_for_date, the loop  while current_time <= day_end
RECURSIVE CollectDay(_, _, _)
CollectDay(treatment, current_time, end) ==
    IF current_time <= end
    THEN (IF is_dose_within_treatment(treatment, current_time)
          THEN <<current_time>> ELSE <<>>)
             \o CollectDay(treatment,
                           current_time + Hours(treatment.frecuencia_horas), end)
    ELSE <<>>

\* get_doses_for_date(treatment, target_date)
get_doses_for_date(treatment, target_date) ==
    CollectDay(treatment,
               AdvanceToDay(treatment.fecha_hora_inicio,
                            treatment.frecuencia_horas, day_start(target_date)),
               day_end(target_date))

\* The mutant: an unconfirmed dose is missed from the deadline on.
determine_dose_status_early(scheduled_time, confirmed_time, grace_minutes, current_time) ==
    IF confirmed_time = None
    THEN IF current_time >= scheduled_time + Minutes(grace_minutes)
         THEN "no_tomada" ELSE "pendiente"
    ELSE IF confirmed_time[1] <= scheduled_time + Minutes(grace_minutes)
         THEN "confirmada" ELSE "tarde"

\* determine_dose_status(scheduled_time, confirmed_time, grace_minutes)
determine_dose_status(scheduled_time, confirmed_time, grace_minutes, current_time) ==
    IF confirmed_time = None
    THEN IF current_time > scheduled_time + Minutes(grace_minutes)
         THEN "no_tomada" ELSE "pendiente"
    ELSE IF confirmed_time[1] <= scheduled_time + Minutes(grace_minutes)
         THEN "confirmada" ELSE "tarde"


----------------------------------------------------------------------------
(* utils/validaciones.py *)

\* The mutant: the sweep also takes the dose whose deadline is the clock reading.
OverdueDosesInclusive(rows, current_time) ==
    {i \in DOMAIN rows :
        /\ rows[i].estado = "pendiente"
        /\ rows[i].hora_programada <= current_time - Minutes(AUTO_MISS_MINUTES)}

\* The mutant: the sweep takes every overdue dose that is not missed yet.
OverdueDosesAnyStatus(rows, current_time) ==
    {i \in DOMAIN rows :
        /\ rows[i].estado # "no_tomada"
        /\ rows[i].hora_programada < current_time - Minutes(AUTO_MISS_MINUTES)}

\* The mutant: the sweep allows no grace period.
OverdueDoses_nograce(rows, current_time) ==
    {i \in DOMAIN rows :
        /\ rows[i].estado = "pendiente"
        /\ rows[i].hora_programada < current_time}

\* validate_and_update_doses: Toma.objects.filter(estado='pendiente',
\*                                hora_programada__lt=cutoff_time)
OverdueDoses(rows, current_time) ==
    LET cutoff_time == current_time - Minutes(AUTO_MISS_MINUTES)
    IN  {i \in DOMAIN rows :
            /\ rows[i].estado = "pendiente"
            /\ rows[i].hora_programada < cutoff_time}

\* validate_and_update_doses: overdue_doses.update(estado='no_tomada')
SweptRows(rows, current_time) ==
    [i \in DOMAIN rows |->
        IF i \in OverdueDoses(rows, current_time)
        THEN [rows[i] EXCEPT !.estado = "no_tomada"]
        ELSE rows[i]]

\* validate_and_update_doses: the dict returned
SweepResult(rows, current_time) ==
    [checked |-> TRUE,
     updated_count |-> Cardinality(OverdueDoses(rows, current_time)),
     cutoff_time |-> current_time - Minutes(AUTO_MISS_MINUTES)]

\* The mutant: a confirmation at the deadline counts as late.
ConfirmStatusStrict(dose, confirmation_time) ==
    IF confirmation_time < dose.hora_programada + Minutes(AUTO_MISS_MINUTES)
    THEN "confirmada" ELSE "tarde"

\* The mutant: a confirmation after the scheduled time counts as late.
ConfirmStatus_nograce(dose, confirmation_time) ==
    IF confirmation_time <= dose.hora_programada THEN "confirmada" ELSE "tarde"

\* confirm_dose: new_status
ConfirmStatus(dose, confirmation_time) ==
    LET deadline == dose.hora_programada + Minutes(AUTO_MISS_MINUTES)
    IN  IF confirmation_time <= deadline THEN "confirmada" ELSE "tarde"

\* confirm_dose: the row saved
ConfirmedRow(dose, confirmation_time) ==
    [dose EXCEPT !.hora_confirmada = Some(confirmation_time),
                 !.estado = ConfirmStatus(dose, confirmation_time)]

\* confirm_dose: the dict returned
ConfirmResult(pk, dose, confirmation_time) ==
    [success |-> TRUE,
     dose_id |-> pk,
     new_status |-> ConfirmStatus(dose, confirmation_time),
     confirmation_time |-> confirmation_time,
     was_on_time |-> ConfirmStatus(dose, confirmation_time) = "confirmada"]

\* The mutant: the window opens one comparison late.
check_confirmation_window_late_open(dose, current_time) ==
    LET window_start == dose.hora_programada - Minutes(CONFIRM_WINDOW_MINUTES)
        grace_end == dose.hora_programada + Minutes(AUTO_MISS_MINUTES)
    IN  IF current_time <= window_start
        THEN [can_confirm |-> FALSE, reason |-> "too_early",
              minutes_until_window |-> window_start - current_time]
        ELSE IF current_time <= grace_end
        THEN IF current_time <= dose.hora_programada
             THEN [can_confirm |-> TRUE, reason |-> "in_window",
                   is_on_time |-> TRUE]
             ELSE [can_confirm |-> TRUE, reason |-> "grace_period",
                   is_on_time |-> FALSE,
                   minutes_late |-> current_time - dose.hora_programada]
        ELSE [can_confirm |-> TRUE, reason |-> "late", is_on_time |-> FALSE,
              minutes_late |-> current_time - dose.hora_programada]

\* check_confirmation_window(dose); the message strings are left out
check_confirmation_window(dose, current_time) ==
    LET window_start == dose.hora_programada - Minutes(CONFIRM_WINDOW_MINUTES)
        grace_end == dose.hora_programada + Minutes(AUTO_MISS_MINUTES)
    IN  IF current_time < window_start
        THEN [can_confirm |-> FALSE, reason |-> "too_early",
              minutes_until_window |-> window_start - current_time]
        ELSE IF current_time <= grace_end
        THEN IF current_time <= dose.hora_programada
             THEN [can_confirm |-> TRUE, reason |-> "in_window",
                   is_on_time |-> TRUE]
             ELSE [can_confirm |-> TRUE, reason |-> "grace_period",
                   is_on_time |-> FALSE,
                   minutes_late |-> current_time - dose.hora_programada]
        ELSE [can_confirm |-> TRUE, reason |-> "late", is_on_time |-> FALSE,
              minutes_late |-> current_time - dose.hora_programada]

\* round(x, 1) of x = n / d * 100, as the number of tenths: the nearest
\* tenth, the even one when x is halfway between two tenths
round1(n, d) ==
    LET q == (1000 * n) \div d
        r == (1000 * n) % d
    IN  IF 2 * r < d THEN q
        ELSE IF 2 * r > d THEN q + 1
        ELSE IF q % 2 = 0 THEN q ELSE q + 1

\* doses.filter(estado=estado).count()
CountEstado(rows, doses, estado) ==
    Cardinality({i \in doses : rows[i].estado = estado})

\* The mutant: a late confirmation does not count as a dose taken.
get_treatment_status_summary_ontime(rows, treatment) ==
    LET doses == {i \in DOMAIN rows : rows[i].tratamiento = Some(treatment)}
        total == Cardinality(doses)
        confirmed == CountEstado(rows, doses, "confirmada")
        late == CountEstado(rows, doses, "tarde")
        missed == CountEstado(rows, doses, "no_tomada")
        pending == CountEstado(rows, doses, "pendiente")
        completed == total - pending
    IN  [total_doses |-> total, confirmed_on_time |-> confirmed,
         confirmed_late |-> late, missed |-> missed, pending |-> pending,
         adherence_rate |-> IF total = 0 THEN 1000
                            ELSE IF completed > 0 THEN round1(confirmed, completed)
                            ELSE 1000]

\* get_treatment_status_summary(treatment); adherence_rate, a float with one
\* decimal, is held as its number of tenths (100.0 is 1000)
get_treatment_status_summary(rows, treatment) ==
    LET doses == {i \in DOMAIN rows : rows[i].tratamiento = Some(treatment)}
        total == Cardinality(doses)
        confirmed == CountEstado(rows, doses, "confirmada")
        late == CountEstado(rows, doses, "tarde")
        missed == CountEstado(rows, doses, "no_tomada")
        pending == CountEstado(rows, doses, "pendiente")
        completed == total - pending
    IN  [total_doses |-> total, confirmed_on_time |-> confirmed,
         confirmed_late |-> late, missed |-> missed, pending |-> pending,
         adherence_rate |-> IF total = 0 THEN 1000
                            ELSE IF completed > 0
                            THEN round1(confirmed + late, completed)
                            ELSE 1000]

----------------------------------------------------------------------------
(* Rows *)

\* A Tratamiento row (models.py); the pk is its index in tratamientos
Tratamiento(inicio, duracion, indefinido, frecuencia, modo) ==
    [fecha_hora_inicio |-> inicio,
     duracion_dias |-> duracion,
     es_indefinido |-> indefinido,
     frecuencia_horas |-> frecuencia,
     modo_calculo |-> modo,
     estado |-> "activo",
     medicamento |-> "Ibuprofeno"]

\* A Toma row (models.py); the pk is its index in tomas
Toma(tratamiento, programada, confirmada, estado) ==
    [tratamiento |-> tratamiento,
     medicamento_nombre_historico |-> None,
     tratamiento_frecuencia_historica |-> None,
     hora_programada |-> programada,
     hora_confirmada |-> confirmada,
     estado |-> estado]

\* A Notificacion row (models.py)
Notificacion(toma, tipo, programada, enviada) ==
    [toma |-> toma, tipo |-> tipo, hora_programada |-> programada,
     enviada |-> enviada, fecha_envio |-> None]

\* ConfiguracionUsuario (models.py): the defaults of the fields the model reads
DefaultConfig ==
    [recordatorio_anticipado |-> TRUE, notificaciones_activas |-> TRUE,
     telegram_activo |-> FALSE, telegram_chat_id |-> None]

\* nothing has been called yet
NoCall == [op |-> "none"]

\* the Telegram channel before any call of send_telegram_message
NoTelegram == [delivered |-> <<>>, failed |-> {}]

----------------------------------------------------------------------------
(* Chaining calculate_next_dose *)

\* longest chain of doses built
MaxChain == 3

\* frecuencia_horas of the chained treatments (DecimalField, no validator)
ChainFrecuencias == {0, 1, 8}

\* fecha_hora_inicio of the chained treatments
ChainStarts == {0, 45}

\* how long after its scheduled time a chained dose is confirmed, in minutes
ChainDelays == {-3, 7, 25}

\* hora_confirmada and estado a dose scheduled at t may hold
DoseOutcomes(t) ==
    {<<None, e>> : e \in {"pendiente", "no_tomada"}}
        \cup {<<Some(t + d), e>> : d \in ChainDelays, e \in {"confirmada", "tarde"}}

\* the last element of the chain as calculate_next_dose's last_dose
ChainLast == IF chain = <<>> THEN None ELSE Some(chain[Len(chain)])

InitNext ==
    /\ now = 0
    /\ \E inicio \in ChainStarts, f \in ChainFrecuencias, m \in MODO_CALCULO_CHOICES :
           tratamientos = <<Tratamiento(inicio, None, TRUE, f, m)>>
    /\ tomas = <<>>
    /\ notificaciones = <<>>
    /\ config = DefaultConfig
    /\ chain = <<>>
    /\ telegram = NoTelegram
    /\ procs = <<>>
    /\ last = NoCall

\* the next dose is scheduled at calculate_next_dose(treatment, last dose)
ChainNextDose ==
    /\ Len(chain) < MaxChain
    /\ LET t == calculate_next_dose(tratamientos[1], ChainLast)
       IN  \E o \in DoseOutcomes(t) :
               /\ chain' = Append(chain, Toma(Some(1), t, o[1], o[2]))
               /\ last' = [op |-> "calculate_next_dose", last_dose |-> ChainLast,
                           ret |-> t]
    /\ UNCHANGED <<now, tratamientos, tomas, notificaciones, config, telegram,
                 procs>>

NextNext == ChainNextDose

SpecNext == InitNext /\ [][NextNext]_vars

\* C1: in from_scheduled mode calculate_next_dose returns start_time when
\* there is no last dose and last_dose.scheduled_time + F otherwise, whatever
\* the last dose's confirmed_time or status; the N-th chained call yields
\* start_time + N*F.
C1_NextDoseFromScheduled ==
    tratamientos[1].modo_calculo = "programada" =>
        /\ \A n \in DOMAIN chain :
               chain[n].hora_programada =
                   tratamientos[1].fecha_hora_inicio
                       + (n - 1) * 60 * tratamientos[1].frecuencia_horas
        /\ last.op = "calculate_next_dose" =>
               last.ret = IF last.last_dose = None
                          THEN tratamientos[1].fecha_hora_inicio
                          ELSE last.last_dose[1].hora_programada
                                   + 60 * tratamientos[1].frecuencia_horas

\* C1's case: a from_scheduled chain whose second dose was confirmed off
\* its scheduled time, and a third dose computed after it.
C1_Witness ==
    /\ tratamientos[1].modo_calculo = "programada"
    /\ tratamientos[1].frecuencia_horas > 0
    /\ Len(chain) = 3
    /\ chain[2].hora_confirmada # None
    /\ chain[2].hora_confirmada # Some(chain[2].hora_programada)
    /\ chain[2].estado = "tarde"

\* C2: in from_confirmation mode calculate_next_dose returns
\* last_dose.confirmed_time + F when confirmed_time is set and
\* last_dose.scheduled_time + F when it is not.
C2_NextDoseFromConfirmation ==
    tratamientos[1].modo_calculo = "confirmacion" =>
        /\ \A n \in DOMAIN chain : n > 1 =>
               chain[n].hora_programada =
                   (IF chain[n - 1].hora_confirmada # None
                    THEN chain[n - 1].hora_confirmada[1]
                    ELSE chain[n - 1].hora_programada)
                       + 60 * tratamientos[1].frecuencia_horas
        /\ (last.op = "calculate_next_dose" /\ last.last_dose # None) =>
               last.ret = (IF last.last_dose[1].hora_confirmada # None
                           THEN last.last_dose[1].hora_confirmada[1]
                           ELSE last.last_dose[1].hora_programada)
                              + 60 * tratamientos[1].frecuencia_horas

\* C2's case: a from_confirmation chain with a first dose confirmed 25
\* minutes late and a second dose left unconfirmed, each followed by a dose.
C2_Witness ==
    /\ tratamientos[1].modo_calculo = "confirmacion"
    /\ tratamientos[1].frecuencia_horas > 0
    /\ Len(chain) = 3
    /\ chain[1].hora_confirmada = Some(chain[1].hora_programada + 25)
    /\ chain[2].hora_confirmada = None

----------------------------------------------------------------------------
(* calculate_all_future_doses and is_dose_within_treatment on any history *)

\* most dose rows in a history
MaxHistory == 2

\* greatest count asked of calculate_all_future_doses
MaxCount == 3

\* frecuencia_horas of the treatments (three of the form's presets)
FutureFrecuencias == {5, 8, 12}

\* es_indefinido and duracion_dias the columns can hold together
FutureDuraciones ==
    {<<TRUE, None>>, <<TRUE, Some(1)>>, <<FALSE, None>>, <<FALSE, Some(0)>>,
     <<FALSE, Some(1)>>}

\* clock readings: before, at and after instants of the progressions
FutureNows == {-1, 0, 479, 480, 510, 1439, 1440}

\* the days asked of get_doses_for_date: the day before the treatment starts,
\* the days of a treatment of one day and the day after its window
TargetDates == {-1, 0, 1, 2}

\* instants asked of is_dose_within_treatment
WithinInstants == {-1, 0, 1, 1380, 1440, 1441, 1500}

\* rows a history is made of: doses of treatment 1, and one of another treatment
HistoryRows ==
    {Toma(Some(1), t, None, "pendiente") : t \in {0, 480}}
        \cup {Toma(Some(1), t, Some(t + 30), "tarde") : t \in {0, 480}}
        \cup {Toma(Some(2), 2000, None, "pendiente")}

\* the sequences of at most n rows
Histories(n) == UNION {[1..k -> HistoryRows] : k \in 0..n}

InitFuture ==
    /\ now \in FutureNows
    /\ \E f \in FutureFrecuencias, d \in FutureDuraciones, m \in MODO_CALCULO_CHOICES :
           tratamientos = <<Tratamiento(0, d[2], d[1], f, m)>>
    /\ tomas \in Histories(MaxHistory)
    /\ notificaciones = <<>>
    /\ config = DefaultConfig
    /\ chain = <<>>
    /\ telegram = NoTelegram
    /\ procs = <<>>
    /\ last = NoCall

\* calculate_all_future_doses(treatment, count)
CallFutureDoses ==
    /\ \E count \in 0..MaxCount, last_dose \in LastDoseChoices(tomas, 1) :
           last' = [op |-> "calculate_all_future_doses", count |-> count,
                    last_dose |-> last_dose,
                    ret |-> calculate_all_future_doses(tratamientos[1], last_dose,
                                                       count, now)]
    /\ UNCHANGED <<now, tratamientos, tomas, notificaciones, config, chain, telegram,
                 procs>>

\* is_dose_within_treatment(treatment, dose_time)
CallWithinTreatment ==
    /\ \E dose_time \in WithinInstants :
           last' = [op |-> "is_dose_within_treatment", dose_time |-> dose_time,
                    ret |-> is_dose_within_treatment(tratamientos[1], dose_time)]
    /\ UNCHANGED <<now, tratamientos, tomas, notificaciones, config, chain, telegram,
                 procs>>

\* get_doses_for_date(treatment, target_date)
CallDosesForDate ==
    /\ \E target_date \in TargetDates :
           last' = [op |-> "get_doses_for_date", target_date |-> target_date,
                    ret |-> get_doses_for_date(tratamientos[1], target_date)]
    /\ UNCHANGED <<now, tratamientos, tomas, notificaciones, config, chain, telegram,
                 procs>>

NextFuture == CallFutureDoses \/ CallWithinTreatment \/ CallDosesForDate

SpecFuture == InitFuture /\ [][NextFuture]_vars

\* the window of C3 and C4, written out: indefinite, or no duration_days, or
\* instant <= start_time + duration_days
InWindow(t, instant) ==
    \/ t.es_indefinido
    \/ t.duracion_dias = None
    \/ instant <= t.fecha_hora_inicio + 1440 * t.duracion_dias[1]

\* the least instant base + k*F (k >= 0) strictly greater than the clock
FirstAfter(base, F, current_time) ==
    CHOOSE x \in {base + k * F : k \in 0..8} :
        /\ x > current_time
        /\ x = base \/ x - F <= current_time

C4_WithinTreatment ==
    last.op = "is_dose_within_treatment" =>
        LET t == tratamientos[1]
        IN  /\ (t.es_indefinido \/ t.duracion_dias = None) => last.ret = TRUE
            /\ (~ t.es_indefinido /\ t.duracion_dias # None) =>
                   (last.ret <=>
                        last.dose_time
                            <= t.fecha_hora_inicio + 1440 * t.duracion_dias[1])

\* C4's case: the boundary instant of a one-day treatment is accepted.
C4_Witness ==
    /\ last.op = "is_dose_within_treatment"
    /\ ~ tratamientos[1].es_indefinido
    /\ tratamientos[1].duracion_dias = Some(1)
    /\ last.dose_time = tratamientos[1].fecha_hora_inicio + 1440
    /\ last.ret = TRUE

\* the instants start_time + k*F (k >= 0) of the day that are in the window
DayInstants(t, target_date) ==
    {x \in (1440 * target_date)..(1440 * target_date + 1439) :
        /\ x >= t.fecha_hora_inicio
        /\ (x - t.fecha_hora_inicio) % (60 * t.frecuencia_horas) = 0
        /\ InWindow(t, x)}

\* C21: get_doses_for_date returns, in ascending order, exactly the instants
\* start_time + k*F (k >= 0) that lie in [day_start, day_end] of the target
\* date and satisfy is_dose_within_treatment; it returns the empty list when
\* the treatment starts after the day's end or the window ended before the
\* day's start.
C21_DosesForDate ==
    last.op = "get_doses_for_date" =>
        LET t == tratamientos[1]
            r == last.ret
            d == last.target_date
        IN  /\ \A n \in 1..(Len(r) - 1) : r[n] < r[n + 1]
            /\ {r[n] : n \in DOMAIN r} = DayInstants(t, d)
            /\ t.fecha_hora_inicio > 1440 * d + 1439 => r = <<>>
            /\ (/\ ~ t.es_indefinido
                /\ t.duracion_dias # None
                /\ t.fecha_hora_inicio + 1440 * t.duracion_dias[1] < 1440 * d)
                   => r = <<>>

\* C21's case: the second day of a one-day treatment taken every 8 hours:
\* the only instant returned is the one at the day's start, which is the
\* last of the window.
C21_Witness ==
    /\ last.op = "get_doses_for_date"
    /\ last.target_date = 1
    /\ tratamientos[1].frecuencia_horas = 8
    /\ ~ tratamientos[1].es_indefinido
    /\ tratamientos[1].duracion_dias = Some(1)
    /\ last.ret = <<1440>>

\* the window of C22, as claimed: [start_time, start_time + duration_days)
InHalfOpenWindow(t, instant) ==
    /\ t.fecha_hora_inicio <= instant
    /\ instant < t.fecha_hora_inicio + 1440 * t.duracion_dias[1]

\* C22: for a treatment that is not indefinite and has duration_days set,
\* is_dose_within_treatment accepts no instant before start_time and no
\* instant at or after start_time + duration_days, and neither
\* calculate_all_future_doses nor get_doses_for_date emits such an instant.
C22_HalfOpenWindow ==
    (~ tratamientos[1].es_indefinido /\ tratamientos[1].duracion_dias # None) =>
        /\ (last.op = "is_dose_within_treatment" /\ last.ret)
               => InHalfOpenWindow(tratamientos[1], last.dose_time)
        /\ last.op \in {"calculate_all_future_doses", "get_doses_for_date"}
               => \A n \in DOMAIN last.ret :
                      InHalfOpenWindow(tratamientos[1], last.ret[n])

----------------------------------------------------------------------------
(* determine_dose_status and check_confirmation_window on any dose *)

\* scheduled times of the doses asked about
StatusScheduled == {0, 60}

\* clock readings around the window start, the scheduled time and the deadline
StatusNows == {-6, -5, -4, 0, 1, 19, 20, 21, 54, 55, 60, 80, 81}

\* confirmation times, as minutes after the scheduled time
StatusDelays == {-10, 0, 20, 21, 30, 31}

\* grace_minutes passed to determine_dose_status (the default is 20)
StatusGraces == {0, 20, 30}

InitStatus ==
    /\ now \in StatusNows
    /\ tratamientos = <<>>
    /\ tomas = <<>>
    /\ notificaciones = <<>>
    /\ config = DefaultConfig
    /\ chain = <<>>
    /\ telegram = NoTelegram
    /\ procs = <<>>
    /\ last = NoCall

\* determine_dose_status(scheduled_time, confirmed_time, grace_minutes)
CallDetermineStatus ==
    /\ \E s \in StatusScheduled, g \in StatusGraces :
       \E c \in {None} \cup {Some(s + d) : d \in StatusDelays} :
           last' = [op |-> "determine_dose_status", scheduled_time |-> s,
                    confirmed_time |-> c, grace_minutes |-> g,
                    ret |-> determine_dose_status(s, c, g, now)]
    /\ UNCHANGED <<now, tratamientos, tomas, notificaciones, config, chain, telegram,
                 procs>>

\* check_confirmation_window(dose)
CallCheckWindow ==
    /\ \E s \in StatusScheduled, e \in ESTADO_CHOICES :
           last' = [op |-> "check_confirmation_window", scheduled_time |-> s,
                    ret |-> check_confirmation_window(
                                Toma(None, s,
                                     IF e \in {"confirmada", "tarde"}
                                     THEN Some(s) ELSE None, e), now)]
    /\ UNCHANGED <<now, tratamientos, tomas, notificaciones, config, chain, telegram,
                 procs>>

NextStatus == CallDetermineStatus \/ CallCheckWindow

SpecStatus == InitStatus /\ [][NextStatus]_vars

\* C5: with confirmed_time unset determine_dose_status returns 'missed'
\* exactly when now > scheduled_time + grace and 'pending' otherwise; with
\* confirmed_time set it returns 'confirmed' exactly when
\* confirmed_time <= scheduled_time + grace and 'late' otherwise, whatever now.
C5_DetermineStatus ==
    last.op = "determine_dose_status" =>
        LET deadline == last.scheduled_time + last.grace_minutes
        IN  /\ last.confirmed_time = None =>
                   last.ret = IF now > deadline THEN "no_tomada" ELSE "pendiente"
            /\ last.confirmed_time # None =>
                   last.ret = IF last.confirmed_time[1] <= deadline
                              THEN "confirmada" ELSE "tarde"

\* C5's case: an unconfirmed dose asked about exactly at its deadline.
C5_Witness ==
    /\ last.op = "determine_dose_status"
    /\ last.confirmed_time = None
    /\ now = last.scheduled_time + last.grace_minutes
    /\ last.grace_minutes > 0
    /\ last.ret = "pendiente"

\* C10: check_confirmation_window puts every clock reading in exactly one of
\* four cases: now < scheduled - window is 'too_early' with can_confirm
\* false; scheduled - window <= now <= scheduled is 'in_window';
\* scheduled < now <= scheduled + grace is 'grace_period'; now > scheduled +
\* grace is 'late'; can_confirm is false only for 'too_early'.
C10_ConfirmationWindow ==
    last.op = "check_confirmation_window" =>
        LET s == last.scheduled_time
            r == last.ret
        IN  /\ r.reason \in {"too_early", "in_window", "grace_period", "late"}
            /\ r.reason = "too_early" <=> now < s - CONFIRM_WINDOW_MINUTES
            /\ r.reason = "in_window" <=>
                   (s - CONFIRM_WINDOW_MINUTES <= now /\ now <= s)
            /\ r.reason = "grace_period" <=>
                   (s < now /\ now <= s + AUTO_MISS_MINUTES)
            /\ r.reason = "late" <=> now > s + AUTO_MISS_MINUTES
            /\ r.can_confirm <=> r.reason # "too_early"

\* C10's case: the clock reads exactly the opening of the window.
C10_Witness ==
    /\ last.op = "check_confirmation_window"
    /\ now = last.scheduled_time - CONFIRM_WINDOW_MINUTES
    /\ last.ret.reason = "in_window"
    /\ last.ret.can_confirm

----------------------------------------------------------------------------
(* get_treatment_status_summary on any history *)

\* how many doses of the treatment are confirmed on time; a treatment taken
\* every hour has 2000 doses after twelve weeks
SummaryConfirmed == {0, 1, 2, 1999}

\* how many are confirmed late, missed and pending
SummaryLate == {0, 1}

SummaryMissed == {0, 1, 2}

SummaryPending == {0, 1}

\* the estado of the i-th dose of a history with the given numbers of doses
EstadoAt(i, confirmed, late, missed) ==
    IF i <= confirmed THEN "confirmada"
    ELSE IF i <= confirmed + late THEN "tarde"
    ELSE IF i <= confirmed + late + missed THEN "no_tomada"
    ELSE "pendiente"

\* the doses of treatment 1, one an hour, followed by the doses of another
\* treatment
SummaryHistory(confirmed, late, missed, pending, others) ==
    [i \in 1..(confirmed + late + missed + pending) |->
        LET e == EstadoAt(i, confirmed, late, missed)
        IN  Toma(Some(1), 60 * (i - 1),
                 IF e \in {"confirmada", "tarde"}
                 THEN Some(60 * (i - 1) + (IF e = "tarde" THEN 30 ELSE 0))
                 ELSE None, e)]
        \o [i \in 1..others |-> Toma(Some(2), 60 * (i - 1), None, "no_tomada")]

InitSummary ==
    /\ now = 0
    /\ \E m \in MODO_CALCULO_CHOICES :
           tratamientos = <<Tratamiento(0, None, TRUE, 1, m)>>
    /\ \E c \in SummaryConfirmed, l \in SummaryLate, m \in SummaryMissed,
          p \in SummaryPending, o \in {0, 1} :
           tomas = SummaryHistory(c, l, m, p, o)
    /\ notificaciones = <<>>
    /\ config = DefaultConfig
    /\ chain = <<>>
    /\ telegram = NoTelegram
    /\ procs = <<>>
    /\ last = NoCall

\* get_treatment_status_summary(treatment)
CallStatusSummary ==
    /\ last' = [op |-> "get_treatment_status_summary",
                ret |-> get_treatment_status_summary(tomas, 1)]
    /\ UNCHANGED <<now, tratamientos, tomas, notificaciones, config, chain,
                   telegram, procs>>

NextSummary == CallStatusSummary

SpecSummary == InitSummary /\ [][NextSummary]_vars

\* the counts are those of the doses of the treatment; adherence_rate is 100.0
\* when total = 0 or total - pending = 0 and otherwise the tenth nearest to
\* (confirmed_on_time + confirmed_late) / (total - pending) * 100; it lies
\* in [0, 100]
SummaryCountsAndRate ==
    LET r == last.ret
        completed == r.total_doses - r.pending
    IN  /\ r.total_doses =
               Cardinality({i \in DOMAIN tomas : tomas[i].tratamiento = Some(1)})
        /\ r.missed =
               Cardinality({i \in DOMAIN tomas :
                               /\ tomas[i].tratamiento = Some(1)
                               /\ tomas[i].estado = "no_tomada"})
        /\ r.total_doses =
               r.confirmed_on_time + r.confirmed_late + r.missed + r.pending
        /\ (r.total_doses = 0 \/ completed = 0) => r.adherence_rate = 1000
        /\ completed > 0 =>
               LET d == r.adherence_rate * completed
                          - 1000 * (r.confirmed_on_time + r.confirmed_late)
               IN  -completed <= 2 * d /\ 2 * d <= completed
        /\ 0 <= r.adherence_rate /\ r.adherence_rate <= 1000

\* C17 as claimed: ... and adherence_rate is 100 exactly when no completed
\* dose is missed.
C17_Summary ==
    last.op = "get_treatment_status_summary" =>
        /\ SummaryCountsAndRate
        /\ last.ret.adherence_rate = 1000 <=> last.ret.missed = 0

\* C17 as amended: ... adherence_rate is 100 whenever no completed dose is
\* missed, and when it is 100 at most one completed dose in 2000 is missed.
C17_SummaryRounded ==
    last.op = "get_treatment_status_summary" =>
        /\ SummaryCountsAndRate
        /\ last.ret.missed = 0 => last.ret.adherence_rate = 1000
        /\ last.ret.adherence_rate = 1000 =>
               2000 * last.ret.missed <= last.ret.total_doses - last.ret.pending

\* C17's case: a treatment with doses in all four states and doses of
\* another treatment beside them; one dose in three completed was missed.
C17_Witness ==
    /\ last.op = "get_treatment_status_summary"
    /\ last.ret.confirmed_on_time = 1
    /\ last.ret.confirmed_late = 1
    /\ last.ret.missed = 1
    /\ last.ret.pending = 1
    /\ Len(tomas) = 5
    /\ last.ret.adherence_rate = 667

----------------------------------------------------------------------------
(* The application: the views of one user, and the clock *)

\* number of clock readings after the first
MaxClock == 3

\* most rows of table Toma
MaxTomas == 2

\* most rows of table Tratamiento
MaxTratamientos == 1

\* the k-th clock reading: on the hour, at the 20 minute deadline of a dose
\* scheduled on the hour, and a minute after that deadline
ClockReading(k) ==
    60 * (k \div 3) + (IF k % 3 = 0 THEN 0 ELSE IF k % 3 = 1 THEN 20 ELSE 21)

ClockReadings == {ClockReading(k) : k \in 0..MaxClock}

\* frecuencia_horas posted to tratamiento_create
PostedFrecuencias == {1}

\* posted to tratamiento_create: es_indefinido, duracion_dias and how many
\* minutes ago the first dose was taken (primera_toma_ahora: 0 minutes;
\* hora_ultima_toma: 23 hours ago)
PostedTratamientos == {<<TRUE, None, 0>>, <<FALSE, Some(1), 1380>>}

\* utils/notificaciones.py create_dose_notifications(dose): the rows created
create_dose_notifications(pk, dose, current_time) ==
    LET main_notification ==
            Notificacion(pk, "principal", dose.hora_programada, FALSE)
        reminder_time == dose.hora_programada - Minutes(5)
    IN  IF config.recordatorio_anticipado /\ reminder_time > current_time
        THEN <<main_notification,
               Notificacion(pk, "recordatorio", reminder_time, FALSE)>>
        ELSE <<main_notification>>

Init ==
    /\ now = 0
    /\ tratamientos = <<>>
    /\ tomas = <<>>
    /\ notificaciones = <<>>
    /\ config \in {[DefaultConfig EXCEPT !.recordatorio_anticipado = b] :
                      b \in BOOLEAN}
    /\ chain = <<>>
    /\ telegram = NoTelegram
    /\ procs = <<>>
    /\ last = NoCall

\* time passes
Tick ==
    /\ \E t \in ClockReadings : t > now /\ now' = t
    /\ last' = [op |-> "tick"]
    /\ UNCHANGED <<tratamientos, tomas, notificaciones, config, chain, telegram,
                 procs>>

\* views.py tratamiento_create, a valid POST
tratamiento_create ==
    /\ Len(tratamientos) < MaxTratamientos
    /\ Len(tomas) < MaxTomas
    /\ \E p \in PostedTratamientos, f \in PostedFrecuencias,
          m \in MODO_CALCULO_CHOICES :
           LET tratamiento ==
                   [Tratamiento(now - p[3], p[2], p[1], f, m) EXCEPT
                        !.medicamento = IF p[1] THEN "Ibuprofeno"
                                        ELSE "Amoxicilina"]
               pk == Len(tratamientos) + 1
               first_dose == Toma(Some(pk), tratamiento.fecha_hora_inicio, None,
                                  "pendiente")
           IN  /\ tratamientos' = Append(tratamientos, tratamiento)
               /\ tomas' = Append(tomas, first_dose)
               /\ notificaciones' = notificaciones \o
                      create_dose_notifications(Len(tomas) + 1, first_dose, now)
               /\ last' = [op |-> "tratamiento_create", tratamiento |-> pk]
    /\ UNCHANGED <<now, config, chain, telegram,
                 procs>>

\* The mutant: the dashboard creates the dose without looking for it.
get_or_create_found_never(rows, pk, next_dose_time) == FALSE

\* Toma.objects.get_or_create(tratamiento=treatment,
\*     hora_programada=next_dose_time, ...): the lookup finds a row
get_or_create_found(rows, pk, next_dose_time) ==
    \E i \in TomasOf(rows, pk) : rows[i].hora_programada = next_dose_time

\* views.py dashboard, the body of  for treatment in treatments  for the
\* treatments pk..Len(tratamientos); db holds the tables tomas and notificaciones
RECURSIVE DashboardCards(_, _)
DashboardCards(pk, db) ==
    IF pk > Len(tratamientos) THEN db
    ELSE IF tratamientos[pk].estado # "activo" THEN DashboardCards(pk + 1, db)
    ELSE LET treatment == tratamientos[pk]
             last_dose == CHOOSE d \in LastDoseChoices(db.tomas, pk) : TRUE
             future_doses == calculate_all_future_doses(treatment, last_dose, 1, now)
         IN  IF future_doses = <<>> THEN DashboardCards(pk + 1, db)
             ELSE IF get_or_create_found(db.tomas, pk, future_doses[1])
             THEN DashboardCards(pk + 1, db)
             ELSE LET dose == Toma(Some(pk), future_doses[1], None, "pendiente")
                  IN  DashboardCards(pk + 1,
                          [tomas |-> Append(db.tomas, dose),
                           notificaciones |-> db.notificaciones \o
                               create_dose_notifications(Len(db.tomas) + 1, dose,
                                                         now)])

\* views.py dashboard: the tables after a pass made now
DashboardPass ==
    DashboardCards(1, [tomas |-> SweptRows(tomas, now),
                       notificaciones |-> notificaciones])

\* views.py dashboard
dashboard ==
    LET db == DashboardPass
    IN  /\ Len(db.tomas) <= MaxTomas
        /\ tomas' = db.tomas
        /\ notificaciones' = db.notificaciones
        /\ last' = [op |-> "dashboard",
                    created |-> Len(db.tomas) - Len(tomas)]
        /\ UNCHANGED <<now, tratamientos, config, chain, telegram,
                 procs>>

\* views.py confirmar_toma and api_confirmar_toma, a POST for dose pk
confirmar_toma ==
    /\ \E pk \in DOMAIN tomas :
           /\ tomas[pk].tratamiento # None
           /\ tomas' = [tomas EXCEPT ![pk] = ConfirmedRow(tomas[pk], now)]
           /\ last' = [op |-> "confirmar_toma", toma |-> pk,
                       before |-> tomas[pk].estado,
                       ret |-> ConfirmResult(pk, tomas[pk], now)]
    /\ UNCHANGED <<now, tratamientos, notificaciones, config, chain, telegram,
                 procs>>

\* views.py api_actualizar_estados
api_actualizar_estados ==
    /\ tomas' = SweptRows(tomas, now)
    /\ last' = [op |-> "api_actualizar_estados",
                ret |-> SweepResult(tomas, now)]
    /\ UNCHANGED <<now, tratamientos, notificaciones, config, chain, telegram,
                 procs>>

\* The mutant: the dose is unlinked without the two historical fields.
DetachedToma_nosnapshot(toma, nombre_medicamento, frecuencia) ==
    [toma EXCEPT !.tratamiento = None]

\* views.py tratamiento_delete, the body of  for toma in tratamiento.tomas.all()
DetachedToma(toma, nombre_medicamento, frecuencia) ==
    [toma EXCEPT !.medicamento_nombre_historico = Some(nombre_medicamento),
                 !.tratamiento_frecuencia_historica = Some(frecuencia),
                 !.tratamiento = None]

\* views.py tratamiento_delete, a POST for treatment pk.  The deleted row
\* keeps its place in the sequence, marked 'eliminado', so that its pk is not
\* given to another row; no query returns it.
tratamiento_delete ==
    /\ \E pk \in DOMAIN tratamientos :
           /\ tratamientos[pk].estado # "eliminado"
           /\ LET nombre_medicamento == tratamientos[pk].medicamento
                  frecuencia == tratamientos[pk].frecuencia_horas
              IN  tomas' = [i \in DOMAIN tomas |->
                               IF tomas[i].tratamiento = Some(pk)
                               THEN DetachedToma(tomas[i], nombre_medicamento,
                                                 frecuencia)
                               ELSE tomas[i]]
           /\ tratamientos' = [tratamientos EXCEPT ![pk].estado = "eliminado"]
           /\ last' = [op |-> "tratamiento_delete", tratamiento |-> pk]
    /\ UNCHANGED <<now, notificaciones, config, chain, telegram, procs>>

\* views.py tratamiento_toggle_pause, a request for treatment pk
tratamiento_toggle_pause ==
    /\ \E pk \in DOMAIN tratamientos :
           /\ tratamientos[pk].estado # "eliminado"
           /\ tratamientos' = [tratamientos EXCEPT ![pk].estado =
                                  IF @ = "activo" THEN "pausado" ELSE "activo"]
           /\ last' = [op |-> "tratamiento_toggle_pause", tratamiento |-> pk]
    /\ UNCHANGED <<now, tomas, notificaciones, config, chain, telegram, procs>>

\* views.py tratamiento_finalizar, a POST for treatment pk
tratamiento_finalizar ==
    /\ \E pk \in DOMAIN tratamientos :
           /\ tratamientos[pk].estado # "eliminado"
           /\ tratamientos' = [tratamientos EXCEPT ![pk].estado = "finalizado"]
           /\ last' = [op |-> "tratamiento_finalizar", tratamiento |-> pk]
    /\ UNCHANGED <<now, tomas, notificaciones, config, chain, telegram, procs>>

Next ==
    \/ Tick
    \/ tratamiento_create
    \/ dashboard
    \/ confirmar_toma
    \/ api_actualizar_estados
    \/ tratamiento_delete
    \/ tratamiento_toggle_pause
    \/ tratamiento_finalizar

Spec == Init /\ [][Next]_vars

\* C6: confirm_dose never rejects: for a dose in any status and at any
\* confirmation time it sets confirmed_time to the confirmation time, sets
\* status to 'confirmed' when confirmation_time <= scheduled_time + grace and
\* to 'late' otherwise, and returns success with was_on_time true exactly
\* when the new status is 'confirmed'.
C6_ConfirmDose ==
    last.op = "confirmar_toma" =>
        LET dose == tomas[last.toma]
        IN  /\ last.before \in ESTADO_CHOICES
            /\ dose.hora_confirmada = Some(now)
            /\ dose.estado = IF now <= dose.hora_programada + AUTO_MISS_MINUTES
                             THEN "confirmada" ELSE "tarde"
            /\ last.ret.success = TRUE
            /\ last.ret.new_status = dose.estado
            /\ last.ret.confirmation_time = now
            /\ last.ret.was_on_time <=> dose.estado = "confirmada"

\* C6's case: a dose confirmed before its confirmation window has opened.
C6_Witness ==
    /\ last.op = "confirmar_toma"
    /\ now < tomas[last.toma].hora_programada - CONFIRM_WINDOW_MINUTES
    /\ tomas[last.toma].hora_confirmada = Some(now)
    /\ tomas[last.toma].estado = "confirmada"
    /\ last.ret.was_on_time

\* the doses a sweep at the clock reading is to change
PendingPastGrace ==
    {i \in DOMAIN tomas :
        /\ tomas[i].estado = "pendiente"
        /\ tomas[i].hora_programada + AUTO_MISS_MINUTES < now}

\* C7: a sweep at clock value now changes to 'missed' exactly the doses that
\* are 'pending' with scheduled_time + grace < now, returns their number as
\* updated_count, and leaves every other dose, and every dose's
\* scheduled_time and confirmed_time, unchanged.
C7_Sweep ==
    [][last'.op = "api_actualizar_estados" =>
          /\ DOMAIN tomas' = DOMAIN tomas
          /\ \A i \in DOMAIN tomas :
                 /\ i \in PendingPastGrace => tomas'[i].estado = "no_tomada"
                 /\ i \notin PendingPastGrace => tomas'[i] = tomas[i]
                 /\ tomas'[i].hora_programada = tomas[i].hora_programada
                 /\ tomas'[i].hora_confirmada = tomas[i].hora_confirmada
                 /\ tomas'[i].tratamiento = tomas[i].tratamiento
          /\ last'.ret.updated_count = Cardinality(PendingPastGrace)]_vars

\* C7's case: a sweep has marked one dose missed and left a pending one.
C7_Witness ==
    /\ last.op = "api_actualizar_estados"
    /\ last.ret.updated_count = 1
    /\ \E i \in DOMAIN tomas : tomas[i].estado = "no_tomada"
    /\ \E i \in DOMAIN tomas : tomas[i].estado = "pendiente"

\* C8: a sweep, alone or at the head of the dashboard, never changes the
\* status of a dose whose confirmed_time is set.
C8_SweepKeepsConfirmed ==
    [][last'.op \in {"api_actualizar_estados", "dashboard"} =>
          \A i \in DOMAIN tomas :
              tomas[i].hora_confirmada # None =>
                  /\ i \in DOMAIN tomas'
                  /\ tomas'[i].estado = tomas[i].estado]_vars

\* C8's case: a sweep has run over a confirmed dose whose deadline has passed.
C8_Witness ==
    /\ last.op = "api_actualizar_estados"
    /\ \E i \in DOMAIN tomas :
           /\ tomas[i].hora_confirmada # None
           /\ tomas[i].hora_programada + AUTO_MISS_MINUTES < now
           /\ tomas[i].estado \in {"confirmada", "tarde"}

\* C9: 'confirmed' and 'late' are absorbing: once a dose has one of them no
\* later operation changes its status or confirmed_time; and no dose ever
\* returns to 'pending'.
C9_ConfirmedLateAbsorbing ==
    [][\A i \in DOMAIN tomas :
           /\ i \in DOMAIN tomas'
           /\ tomas[i].estado \in {"confirmada", "tarde"} =>
                  /\ tomas'[i].estado = tomas[i].estado
                  /\ tomas'[i].hora_confirmada = tomas[i].hora_confirmada
           /\ tomas[i].estado # "pendiente" => tomas'[i].estado # "pendiente"]_vars

\* the doses a step has added to table Toma
NewTomas == (Len(tomas) + 1)..Len(tomas')

\* the first instant of calculate_all_future_doses for treatment pk, as a
\* set: empty when the function returns the empty list
FirstFutureDose(pk) ==
    {calculate_all_future_doses(tratamientos[pk], d, 1, now)[1] :
        d \in {x \in LastDoseChoices(tomas, pk) :
                  calculate_all_future_doses(tratamientos[pk], x, 1, now) # <<>>}}

\* C23: a dashboard pass creates at most one new Dose per active treatment,
\* at the first instant of calculate_all_future_doses, and none for another
\* treatment; it never creates a Dose whose (treatment, scheduled_time)
\* already exists; and after a pass a second pass at the same clock value
\* would create no Dose at all.
C23_OneDoseAtATime ==
    /\ [][last'.op = "dashboard" =>
              /\ SubSeq(tomas', 1, Len(tomas)) = SweptRows(tomas, now)
              /\ \A i, j \in NewTomas :
                     tomas'[i].tratamiento = tomas'[j].tratamiento => i = j
              /\ \A i \in NewTomas :
                     \E pk \in DOMAIN tratamientos :
                         /\ tomas'[i].tratamiento = Some(pk)
                         /\ tratamientos[pk].estado = "activo"
                         /\ tomas'[i].hora_programada \in FirstFutureDose(pk)
                         /\ tomas'[i].estado = "pendiente"
                         /\ tomas'[i].hora_confirmada = None
                         /\ ~ \E k \in DOMAIN tomas :
                                /\ tomas[k].tratamiento = Some(pk)
                                /\ tomas[k].hora_programada =
                                       tomas'[i].hora_programada]_vars
    /\ [](last.op = "dashboard" => DashboardPass.tomas = tomas)

\* C23's case: a pass has created the second dose of an active treatment
\* whose first dose is due.
C23_Witness ==
    /\ last.op = "dashboard"
    /\ last.created = 1
    /\ Len(tomas) = 2
    /\ tomas[1].tratamiento = tomas[2].tratamiento
    /\ tomas[2].hora_programada > now
    /\ tomas[1].hora_programada <= now
    /\ tratamientos[1].estado = "activo"

\* C28: with a non-decreasing clock and a fixed grace period, confirming (at
\* the current time) a dose that a sweep has already marked 'missed' always
\* yields status 'late' with was_on_time false, never 'confirmed'.
C28_MissedThenLate ==
    [][(last'.op = "confirmar_toma" /\ last'.before = "no_tomada") =>
          /\ tomas'[last'.toma].estado = "tarde"
          /\ tomas'[last'.toma].hora_confirmada = Some(now)
          /\ last'.ret.new_status = "tarde"
          /\ ~ last'.ret.was_on_time]_vars

\* C28's case: a dose marked missed by a sweep has been confirmed.
C28_Witness ==
    /\ last.op = "confirmar_toma"
    /\ last.before = "no_tomada"
    /\ tomas[last.toma].estado = "tarde"
    /\ tomas[last.toma].hora_confirmada = Some(now)

\* C29: immediately after a sweep at clock value now, alone or at the head
\* of the dashboard, every dose's stored status equals
\* determine_dose_status(scheduled_time, confirmed_time, grace) evaluated at
\* now, and confirmed_time is set exactly for the doses whose status is
\* 'confirmed' or 'late'.
C29_StoredStatusAgrees ==
    last.op \in {"api_actualizar_estados", "dashboard"} =>
        \A i \in DOMAIN tomas :
            /\ tomas[i].estado =
                   determine_dose_status(tomas[i].hora_programada,
                                         tomas[i].hora_confirmada,
                                         AUTO_MISS_MINUTES, now)
            /\ tomas[i].hora_confirmada # None
                   <=> tomas[i].estado \in {"confirmada", "tarde"}

\* C29's case: a sweep has run over a confirmed dose and has marked another
\* dose missed.
C29_Witness ==
    /\ last.op = "api_actualizar_estados"
    /\ last.ret.updated_count = 1
    /\ \E i, j \in DOMAIN tomas :
           /\ tomas[i].estado = "confirmada"
           /\ tomas[i].hora_confirmada # None
           /\ tomas[j].estado = "no_tomada"
           /\ tomas[j].hora_programada + AUTO_MISS_MINUTES < now

\* C25: for a from_confirmation treatment, any two persisted doses of the
\* treatment that are consecutive by scheduled_time: if the earlier one is
\* confirmed, the later one's scheduled_time equals the earlier one's
\* confirmed_time + frequency_hours.
C25_DelayPropagates ==
    \A pk \in DOMAIN tratamientos :
        tratamientos[pk].modo_calculo = "confirmacion" =>
            \A i, j \in TomasOf(tomas, pk) :
                (/\ tomas[i].hora_programada < tomas[j].hora_programada
                 /\ ~ \E k \in TomasOf(tomas, pk) :
                        /\ tomas[i].hora_programada < tomas[k].hora_programada
                        /\ tomas[k].hora_programada < tomas[j].hora_programada
                 /\ tomas[i].estado = "confirmada")
                    => tomas[j].hora_programada =
                           tomas[i].hora_confirmada[1]
                               + 60 * tratamientos[pk].frecuencia_horas

\* C20: deleting a treatment deletes no Dose: afterwards every dose that
\* referenced the treatment still exists with its treatment reference null,
\* its medication-name snapshot equal to the treatment's medication name and
\* its frequency snapshot equal to the treatment's frequency, and with
\* scheduled_time, confirmed_time and status unchanged.
C20_DeleteKeepsDoses ==
    [][last'.op = "tratamiento_delete" =>
          /\ DOMAIN tomas' = DOMAIN tomas
          /\ notificaciones' = notificaciones
          /\ \A i \in DOMAIN tomas :
                 IF tomas[i].tratamiento = Some(last'.tratamiento)
                 THEN /\ tomas'[i].tratamiento = None
                      /\ tomas'[i].medicamento_nombre_historico =
                             Some(tratamientos[last'.tratamiento].medicamento)
                      /\ tomas'[i].tratamiento_frecuencia_historica =
                             Some(tratamientos[last'.tratamiento].frecuencia_horas)
                      /\ tomas'[i].hora_programada = tomas[i].hora_programada
                      /\ tomas'[i].hora_confirmada = tomas[i].hora_confirmada
                      /\ tomas'[i].estado = tomas[i].estado
                 ELSE tomas'[i] = tomas[i]]_vars

\* C20's case: a treatment with a late dose and a pending dose has been
\* deleted; both doses are there, detached, with the snapshots.
C20_Witness ==
    /\ last.op = "tratamiento_delete"
    /\ tratamientos[last.tratamiento].estado = "eliminado"
    /\ Len(tomas) = 2
    /\ \E i, j \in DOMAIN tomas :
           /\ tomas[i].estado = "tarde" /\ tomas[i].hora_confirmada # None
           /\ tomas[j].estado = "pendiente"
           /\ tomas[i].tratamiento = None /\ tomas[j].tratamiento = None
           /\ tomas[i].medicamento_nombre_historico = Some("Amoxicilina")
           /\ tomas[j].tratamiento_frecuencia_historica = Some(1)

----------------------------------------------------------------------------
(* management/commands/enviar_recordatorios_telegram.py and                 *)
(* views.py api_telegram_check_reminders: the Telegram reminders           *)

TIPO_CHOICES == {"principal", "recordatorio"}

\* ConfiguracionUsuario.objects.filter(telegram_activo=True,
\*     telegram_chat_id__isnull=False).exclude(telegram_chat_id='')
telegram_configurado(c) ==
    c.telegram_activo /\ c.telegram_chat_id # None /\ c.telegram_chat_id # Some("")

\* Notificacion.objects.filter(toma=toma, tipo=tipo, enviada=True).exists()
notif_enviada(rows, toma, tipo) ==
    \E n \in DOMAIN rows :
        rows[n].toma = toma /\ rows[n].tipo = tipo /\ rows[n].enviada

\* The mutant: the query has no buffer behind the clock reading.
tomas_pendientes_nobuffer(rows, current_time, fecha_limite) ==
    {i \in DOMAIN rows :
        /\ rows[i].tratamiento # None
        /\ rows[i].estado = "pendiente"
        /\ rows[i].hora_programada >= current_time
        /\ rows[i].hora_programada <= fecha_limite}

\* Toma.objects.filter(tratamiento__usuario=usuario, estado='pendiente',
\*     hora_programada__gte=now - 2 minutes, hora_programada__lte=fecha_limite)
tomas_pendientes(rows, current_time, fecha_limite) ==
    {i \in DOMAIN rows :
        /\ rows[i].tratamiento # None
        /\ rows[i].estado = "pendiente"
        /\ rows[i].hora_programada >= current_time - Minutes(2)
        /\ rows[i].hora_programada <= fecha_limite}

\* the pks of a queryset of doses in Meta.ordering, '-hora_programada'
RECURSIVE OrderedTomas(_, _)
OrderedTomas(rows, S) ==
    IF S = {} THEN <<>>
    ELSE LET i == CHOOSE i \in S :
                      \A j \in S : rows[j].hora_programada <= rows[i].hora_programada
         IN  <<i>> \o OrderedTomas(rows, S \ {i})

\* The mutant: the advance reminder does not look at the user's preference.
anticipado_due_any(rows, toma, minutos_hasta_toma, enviar_anticipado) ==
    /\ 4 <= minutos_hasta_toma /\ minutos_hasta_toma <= 6
    /\ ~ notif_enviada(rows, toma, "recordatorio")

\* if enviar_anticipado and 4 <= minutos_hasta_toma <= 6: if not notif_anticipada
anticipado_due(rows, toma, minutos_hasta_toma, enviar_anticipado) ==
    /\ enviar_anticipado
    /\ 4 <= minutos_hasta_toma /\ minutos_hasta_toma <= 6
    /\ ~ notif_enviada(rows, toma, "recordatorio")

\* The mutant: the main reminder does not look for the sent record.
principal_due_nocheck(rows, toma, minutos_hasta_toma) ==
    -2 <= minutos_hasta_toma /\ minutos_hasta_toma <= 2

\* if -2 <= minutos_hasta_toma <= 2: if not notif_principal
principal_due(rows, toma, minutos_hasta_toma) ==
    /\ -2 <= minutos_hasta_toma /\ minutos_hasta_toma <= 2
    /\ ~ notif_enviada(rows, toma, "principal")

\* the record created after a delivery that reported success
NotificacionEnviada(toma, tipo, programada, current_time) ==
    [Notificacion(toma, tipo, programada, TRUE) EXCEPT
         !.fecha_envio = Some(current_time)]

\* The mutant: the record is created with enviada left at its default.
Recordar_unsent(db, toma, tipo, programada, dry_run, success, current_time) ==
    LET sent == [toma |-> toma, tipo |-> tipo]
    IN  IF dry_run THEN [db EXCEPT !.enviados = Append(@, sent)]
        ELSE IF success
        THEN [db EXCEPT
                 !.calls = Append(@, [toma |-> toma, tipo |-> tipo, success |-> TRUE]),
                 !.telegram.delivered = Append(@, sent),
                 !.notificaciones =
                     Append(@, Notificacion(toma, tipo, programada, FALSE)),
                 !.enviados = Append(@, sent)]
        ELSE [db EXCEPT
                 !.calls = Append(@, [toma |-> toma, tipo |-> tipo, success |-> FALSE]),
                 !.telegram.failed = @ \cup {sent}]

\* The mutant: the record is created whatever the delivery reported.
Recordar_always(db, toma, tipo, programada, dry_run, success, current_time) ==
    LET sent == [toma |-> toma, tipo |-> tipo]
    IN  IF dry_run THEN [db EXCEPT !.enviados = Append(@, sent)]
        ELSE [db EXCEPT
                 !.calls = Append(@, [toma |-> toma, tipo |-> tipo,
                                      success |-> success]),
                 !.telegram.delivered = IF success THEN Append(@, sent) ELSE @,
                 !.telegram.failed = IF success THEN @ ELSE @ \cup {sent},
                 !.notificaciones =
                     Append(@, NotificacionEnviada(toma, tipo, programada,
                                                   current_time)),
                 !.enviados = Append(@, sent)]

\* The mutant: a dry run records the reminder as sent.
Recordar_dry(db, toma, tipo, programada, dry_run, success, current_time) ==
    LET sent == [toma |-> toma, tipo |-> tipo]
    IN  IF dry_run
        THEN [db EXCEPT
                 !.notificaciones =
                     Append(@, NotificacionEnviada(toma, tipo, programada,
                                                   current_time)),
                 !.enviados = Append(@, sent)]
        ELSE IF success
        THEN [db EXCEPT
                 !.calls = Append(@, [toma |-> toma, tipo |-> tipo, success |-> TRUE]),
                 !.telegram.delivered = Append(@, sent),
                 !.notificaciones =
                     Append(@, NotificacionEnviada(toma, tipo, programada,
                                                   current_time)),
                 !.enviados = Append(@, sent)]
        ELSE [db EXCEPT
                 !.calls = Append(@, [toma |-> toma, tipo |-> tipo, success |-> FALSE]),
                 !.telegram.failed = @ \cup {sent}]

\* the body of  if not notif_...:  the call of send_upcoming_reminder or
\* send_dose_reminder, whose result has success as given, and
\* Notificacion.objects.create(...) after a success.  db holds the table
\* notificaciones, the messages delivered, the calls made to the channel in
\* this run and the reminders the run counts as sent.
Recordar(db, toma, tipo, programada, dry_run, success, current_time) ==
    LET sent == [toma |-> toma, tipo |-> tipo]
    IN  IF dry_run THEN [db EXCEPT !.enviados = Append(@, sent)]
        ELSE IF success
        THEN [db EXCEPT
                 !.calls = Append(@, [toma |-> toma, tipo |-> tipo, success |-> TRUE]),
                 !.telegram.delivered = Append(@, sent),
                 !.notificaciones =
                     Append(@, NotificacionEnviada(toma, tipo, programada,
                                                   current_time)),
                 !.enviados = Append(@, sent)]
        ELSE [db EXCEPT
                 !.calls = Append(@, [toma |-> toma, tipo |-> tipo, success |-> FALSE]),
                 !.telegram.failed = @ \cup {sent}]

\* the body of  for toma in tomas_pendientes ; ok[<<toma, tipo>>] is what the
\* delivery of that reminder reports
ProcesarToma(db, pk, current_time, enviar_anticipado, dry_run, ok) ==
    LET hora_toma == tomas[pk].hora_programada
        minutos_hasta_toma == hora_toma - current_time
        db1 == IF anticipado_due(db.notificaciones, pk, minutos_hasta_toma,
                                 enviar_anticipado)
               THEN Recordar(db, pk, "recordatorio", hora_toma - Minutes(5),
                             dry_run, ok[<<pk, "recordatorio">>], current_time)
               ELSE db
    IN  IF principal_due(db1.notificaciones, pk, minutos_hasta_toma)
        THEN Recordar(db1, pk, "principal", hora_toma, dry_run,
                      ok[<<pk, "principal">>], current_time)
        ELSE db1

\* for toma in tomas_pendientes
RECURSIVE ProcesarTomas(_, _, _, _, _, _)
ProcesarTomas(db, pendientes, current_time, enviar_anticipado, dry_run, ok) ==
    IF pendientes = <<>> THEN db
    ELSE ProcesarTomas(
             ProcesarToma(db, Head(pendientes), current_time, enviar_anticipado,
                          dry_run, ok),
             Tail(pendientes), current_time, enviar_anticipado, dry_run, ok)

\* the loop over the doses, from the tables as they are
RecordatoriosDe(pendientes, dry_run, ok) ==
    ProcesarTomas([notificaciones |-> notificaciones, telegram |-> telegram,
                   calls |-> <<>>, enviados |-> <<>>],
                  pendientes, now, config.recordatorio_anticipado, dry_run, ok)

\* one run of the reminders over the doses scheduled up to fecha_limite
Recordatorios(fecha_limite, dry_run, ok) ==
    RecordatoriosDe(
        OrderedTomas(tomas, tomas_pendientes(tomas, now, fecha_limite)),
        dry_run, ok)

\* Command.handle of enviar_recordatorios_telegram, with or without --dry-run
enviar_recordatorios_telegram ==
    /\ \E dry_run \in BOOLEAN :
           IF ~ telegram_configurado(config)
           THEN /\ last' = [op |-> "enviar_recordatorios_telegram",
                            dry_run |-> dry_run, calls |-> <<>>,
                            enviados |-> <<>>]
                /\ UNCHANGED <<notificaciones, telegram>>
           ELSE \E ok \in [tomas_pendientes(tomas, now, now + Hours(24))
                               \X TIPO_CHOICES -> BOOLEAN] :
                    LET db == Recordatorios(now + Hours(24), dry_run, ok)
                    IN  /\ notificaciones' = db.notificaciones
                        /\ telegram' = db.telegram
                        /\ last' = [op |-> "enviar_recordatorios_telegram",
                                    dry_run |-> dry_run, calls |-> db.calls,
                                    enviados |-> db.enviados]
    /\ UNCHANGED <<now, tratamientos, tomas, config, chain, procs>>

\* views.py api_telegram_check_reminders
api_telegram_check_reminders ==
    /\ IF ~ telegram_configurado(config)
       THEN /\ last' = [op |-> "api_telegram_check_reminders",
                        dry_run |-> FALSE, calls |-> <<>>, enviados |-> <<>>]
            /\ UNCHANGED <<notificaciones, telegram>>
       ELSE \E ok \in [tomas_pendientes(tomas, now, now + Minutes(10))
                           \X TIPO_CHOICES -> BOOLEAN] :
                LET db == Recordatorios(now + Minutes(10), FALSE, ok)
                IN  /\ notificaciones' = db.notificaciones
                    /\ telegram' = db.telegram
                    /\ last' = [op |-> "api_telegram_check_reminders",
                                dry_run |-> FALSE, calls |-> db.calls,
                                enviados |-> db.enviados]
    /\ UNCHANGED <<now, tratamientos, tomas, config, chain, procs>>

----------------------------------------------------------------------------
(* The reminders run one after another, among the views of one user *)

\* number of clock readings after the first
MaxDispatchClock == 5

\* the clock readings, in minutes: in the main reminder's window of a dose
\* scheduled at 0, past that dose's grace period, and around the advance and
\* the main reminder of a dose scheduled at 60
DispatchReading(k) ==
    CASE k = 0 -> 0
      [] k = 1 -> 2
      [] k = 2 -> 21
      [] k = 3 -> 54
      [] k = 4 -> 56
      [] k = 5 -> 57
      [] k = 6 -> 58
      [] k = 7 -> 62
      [] OTHER -> 63 + (k - 8)

DispatchReadings == {DispatchReading(k) : k \in 0..MaxDispatchClock}

\* the ConfiguracionUsuario rows: Telegram linked or not, the advance
\* reminder wanted or not
DispatchConfigs ==
    {[DefaultConfig EXCEPT !.telegram_activo = TRUE,
                           !.telegram_chat_id = Some("chat"),
                           !.recordatorio_anticipado = b] : b \in BOOLEAN}
        \cup {DefaultConfig}

\* the tables after tratamiento_create at 0 for a treatment whose first
\* dose is taken now; the treatment keeps the default modo_calculo, which
\* neither reminder handler reads
InitDispatch ==
    /\ now = 0
    /\ config \in DispatchConfigs
    /\ tratamientos = <<Tratamiento(0, None, TRUE, 1, "programada")>>
    /\ tomas = <<Toma(Some(1), 0, None, "pendiente")>>
    /\ notificaciones = create_dose_notifications(1, tomas[1], 0)
    /\ chain = <<>>
    /\ telegram = NoTelegram
    /\ procs = <<>>
    /\ last = NoCall

\* time passes
DispatchTick ==
    /\ \E t \in DispatchReadings : t > now /\ now' = t
    /\ last' = [op |-> "tick"]
    /\ UNCHANGED <<tratamientos, tomas, notificaciones, config, chain, telegram,
                   procs>>

NextDispatch ==
    \/ DispatchTick
    \/ dashboard
    \/ confirmar_toma
    \/ tratamiento_delete
    \/ enviar_recordatorios_telegram
    \/ api_telegram_check_reminders

SpecDispatch == InitDispatch /\ [][NextDispatch]_vars

\* the operations that run the reminders
DispatchOps == {"enviar_recordatorios_telegram", "api_telegram_check_reminders"}

\* a step that is a run of the reminders, not a dry run
DispatchStep == last'.op \in DispatchOps /\ ~ last'.dry_run

\* the records a step has added to table Notificacion
NewNotificaciones == (Len(notificaciones) + 1)..Len(notificaciones')

\* how far the run that has just been made looks ahead, in minutes
Lookahead ==
    IF last'.op = "enviar_recordatorios_telegram" THEN 24 * 60 ELSE 10

\* the run attempted a delivery of the kind for dose i
Attempted(i, tipo) ==
    \E c \in DOMAIN last'.calls :
        last'.calls[c].toma = i /\ last'.calls[c].tipo = tipo

\* the run made a delivery of the kind for dose i that reported success
Delivered(i, tipo) ==
    \E c \in DOMAIN last'.calls :
        last'.calls[c] = [toma |-> i, tipo |-> tipo, success |-> TRUE]

\* before the run a sent=true Notification of the kind existed for dose i
SentBefore(i, tipo) ==
    \E n \in DOMAIN notificaciones :
        /\ notificaciones[n].toma = i
        /\ notificaciones[n].tipo = tipo
        /\ notificaciones[n].enviada

\* C11: in a run of the reminders that is not a dry run, an advance
\* reminder is attempted for a dose only if the dose is 'pending', its
\* scheduled_time is in [now - 2min, now + lookahead], the config enables
\* advance reminders, 4 <= minutes_until_dose <= 6 and no sent=true advance
\* Notification exists for it; a sent=true advance Notification with
\* scheduled_time = dose.scheduled_time - 5min is added exactly when that
\* delivery reports success.
C11_AdvanceReminder ==
    [][DispatchStep =>
          /\ SubSeq(notificaciones', 1, Len(notificaciones)) = notificaciones
          /\ \A i \in DOMAIN tomas :
                 /\ Attempted(i, "recordatorio") =>
                        /\ tomas[i].estado = "pendiente"
                        /\ now - 2 <= tomas[i].hora_programada
                        /\ tomas[i].hora_programada <= now + Lookahead
                        /\ config.recordatorio_anticipado
                        /\ 4 <= tomas[i].hora_programada - now
                        /\ tomas[i].hora_programada - now <= 6
                        /\ ~ SentBefore(i, "recordatorio")
                 /\ Delivered(i, "recordatorio") <=>
                        \E n \in NewNotificaciones :
                            /\ notificaciones'[n].toma = i
                            /\ notificaciones'[n].tipo = "recordatorio"
          /\ \A c \in DOMAIN last'.calls : last'.calls[c].toma \in DOMAIN tomas
          /\ \A n \in NewNotificaciones :
                 notificaciones'[n].tipo = "recordatorio" =>
                     /\ notificaciones'[n].enviada
                     /\ notificaciones'[n].hora_programada =
                            tomas[notificaciones'[n].toma].hora_programada - 5]_vars

\* C11's case: the command has delivered the advance reminder of a dose five
\* minutes ahead and recorded it.
C11_Witness ==
    /\ last.op = "enviar_recordatorios_telegram"
    /\ ~ last.dry_run
    /\ \E c \in DOMAIN last.calls :
           /\ last.calls[c].tipo = "recordatorio"
           /\ last.calls[c].success
           /\ \E n \in DOMAIN notificaciones :
                  /\ notificaciones[n].toma = last.calls[c].toma
                  /\ notificaciones[n].tipo = "recordatorio"
                  /\ notificaciones[n].enviada
                  /\ notificaciones[n].hora_programada =
                         tomas[last.calls[c].toma].hora_programada - 5

\* C12: in a run of the reminders that is not a dry run, a main reminder is
\* attempted for a dose only if the dose is 'pending', -2 <=
\* minutes_until_dose <= 2 and no sent=true main Notification exists for it,
\* whatever the advance-reminder preference; a sent=true main Notification
\* with scheduled_time = dose.scheduled_time is added exactly when that
\* delivery reports success.
C12_MainReminder ==
    [][DispatchStep =>
          /\ SubSeq(notificaciones', 1, Len(notificaciones)) = notificaciones
          /\ \A i \in DOMAIN tomas :
                 /\ Attempted(i, "principal") =>
                        /\ tomas[i].estado = "pendiente"
                        /\ -2 <= tomas[i].hora_programada - now
                        /\ tomas[i].hora_programada - now <= 2
                        /\ ~ SentBefore(i, "principal")
                 /\ Delivered(i, "principal") <=>
                        \E n \in NewNotificaciones :
                            /\ notificaciones'[n].toma = i
                            /\ notificaciones'[n].tipo = "principal"
          /\ \A n \in NewNotificaciones :
                 notificaciones'[n].tipo = "principal" =>
                     /\ notificaciones'[n].enviada
                     /\ notificaciones'[n].hora_programada =
                            tomas[notificaciones'[n].toma].hora_programada]_vars

\* C12's case: the endpoint has delivered and recorded the main reminder of
\* a dose two minutes past its time, for a user who wants no advance reminder.
C12_Witness ==
    /\ last.op = "api_telegram_check_reminders"
    /\ ~ config.recordatorio_anticipado
    /\ \E c \in DOMAIN last.calls :
           /\ last.calls[c].tipo = "principal"
           /\ last.calls[c].success
           /\ tomas[last.calls[c].toma].hora_programada = now - 2
           /\ \E n \in DOMAIN notificaciones :
                  /\ notificaciones[n].toma = last.calls[c].toma
                  /\ notificaciones[n].tipo = "principal"
                  /\ notificaciones[n].enviada
                  /\ notificaciones[n].hora_programada =
                         tomas[last.calls[c].toma].hora_programada

\* the number of messages of the kind the channel has delivered for dose i
Deliveries(i, tipo) ==
    Cardinality({k \in DOMAIN telegram.delivered :
                    telegram.delivered[k] = [toma |-> i, tipo |-> tipo]})

\* C13: over any sequence of runs of the reminders made one after another
\* (command and endpoint, also two runs at the same clock reading), each
\* dose receives at most one successful main delivery and at most one
\* successful advance delivery.
C13_AtMostOnce ==
    \A i \in DOMAIN tomas : \A tipo \in TIPO_CHOICES : Deliveries(i, tipo) <= 1

\* C13's case: a run has found a pending dose in its main window whose main
\* reminder was delivered before, and has called the channel for nothing.
C13_Witness ==
    /\ last.op \in DispatchOps
    /\ ~ last.dry_run
    /\ telegram_configurado(config)
    /\ last.calls = <<>>
    /\ \E i \in DOMAIN tomas :
           /\ tomas[i].tratamiento # None
           /\ tomas[i].estado = "pendiente"
           /\ tomas[i].hora_programada - now \in -2..2
           /\ Deliveries(i, "principal") = 1

\* the clock reading is in the window of the reminder of the kind for dose i
InReminderWindow(i, tipo) ==
    IF tipo = "recordatorio"
    THEN 4 <= tomas[i].hora_programada - now /\ tomas[i].hora_programada - now <= 6
    ELSE -2 <= tomas[i].hora_programada - now /\ tomas[i].hora_programada - now <= 2

\* a delivery that reports failure adds no Notification for the dose and
\* kind, leaves the doses as they were and is the only attempt the run makes
\* for that dose and kind
FailureLeavesNoTrace ==
    /\ tomas' = tomas
    /\ \A c \in DOMAIN last'.calls :
           ~ last'.calls[c].success =>
               /\ ~ \E n \in NewNotificaciones :
                        /\ notificaciones'[n].toma = last'.calls[c].toma
                        /\ notificaciones'[n].tipo = last'.calls[c].tipo
               /\ \A d \in DOMAIN last'.calls :
                      (/\ last'.calls[d].toma = last'.calls[c].toma
                       /\ last'.calls[d].tipo = last'.calls[c].tipo) => d = c

C16_DryRun ==
    [][(last'.op = "enviar_recordatorios_telegram" /\ last'.dry_run) =>
          /\ last'.calls = <<>>
          /\ telegram' = telegram
          /\ notificaciones' = notificaciones
          /\ tomas' = tomas]_vars

\* C16's case: a dry run that has reported a reminder it would send.
C16_Witness ==
    /\ last.op = "enviar_recordatorios_telegram"
    /\ last.dry_run
    /\ last.enviados # <<>>
    /\ ~ \E n \in DOMAIN notificaciones : notificaciones[n].enviada

\* C18: every invocation of the periodic driver sweeps the overdue doses and
\* then runs the reminders: when the reminders run, no dose with
\* scheduled_time + grace < now is still 'pending'.
C18_SweepBeforeDispatch ==
    last.op = "enviar_recordatorios_telegram" =>
        \A i \in DOMAIN tomas :
            ~ (/\ tomas[i].estado = "pendiente"
               /\ tomas[i].hora_programada + AUTO_MISS_MINUTES < now)

----------------------------------------------------------------------------
(* The reminders of a treatment that is paused, resumed and ended *)

\* utils/notificaciones.py should_send_notification(notification)
should_send_notification(notification, current_time) ==
    IF ~ config.notificaciones_activas THEN FALSE
    ELSE IF tratamientos[tomas[notification.toma].tratamiento[1]].estado # "activo"
    THEN FALSE
    ELSE IF notification.enviada THEN FALSE
    ELSE IF notification.hora_programada > current_time THEN FALSE
    ELSE TRUE

NextPause ==
    \/ DispatchTick
    \/ tratamiento_toggle_pause
    \/ tratamiento_finalizar
    \/ enviar_recordatorios_telegram
    \/ api_telegram_check_reminders

SpecPause == InitDispatch /\ [][NextPause]_vars

\* C30: no run of the reminders attempts a main or an advance delivery for a
\* dose whose treatment is not 'active'; should_send_notification refuses
\* every notification of such a dose.
C30_NoReminderWhilePaused ==
    [][DispatchStep =>
          \A c \in DOMAIN last'.calls :
              LET toma == tomas[last'.calls[c].toma]
              IN  /\ toma.tratamiento # None
                  /\ tratamientos[toma.tratamiento[1]].estado = "activo"
                  /\ \A n \in DOMAIN notificaciones :
                         (/\ notificaciones[n].toma = last'.calls[c].toma
                          /\ tratamientos[toma.tratamiento[1]].estado # "activo")
                             => ~ should_send_notification(notificaciones[n], now)]_vars

----------------------------------------------------------------------------
(* Two runs of the reminders at once: the command the reminder service      *)
(* calls, and the endpoint the browser polls.  Each query and each call of  *)
(* the channel is a step of its own.                                        *)

\* the operation each process runs
RunOp ==
    [service |-> "enviar_recordatorios_telegram",
     browser |-> "api_telegram_check_reminders"]

Runs == DOMAIN RunOp

\* a process between two runs
IdleRun == [pc |-> "idle", now |-> 0, pendientes |-> <<>>, tipo |-> "principal"]

\* the tables when the runs start: the first dose of a treatment started at
\* 0, still pending or marked missed by the dashboard, and the dose the
\* dashboard has scheduled at 60
OverlapTomas ==
    {<<Toma(Some(1), 0, None, "pendiente")>>,
     <<Toma(Some(1), 0, None, "pendiente"), Toma(Some(1), 60, None, "pendiente")>>,
     <<Toma(Some(1), 0, None, "no_tomada"), Toma(Some(1), 60, None, "pendiente")>>}

\* the clock readings at which the runs start: in the main window of the
\* dose at 0, in the advance window and in the main window of the dose at 60
OverlapNows == {0, 2, 55, 58}

InitOverlap ==
    /\ now \in OverlapNows
    /\ config \in {c \in DispatchConfigs : telegram_configurado(c)}
    /\ tratamientos = <<Tratamiento(0, None, TRUE, 1, "programada")>>
    /\ tomas \in OverlapTomas
    /\ tomas[1].estado = "no_tomada" => now > 20
    /\ Len(tomas) = 1 => now < 60
    /\ notificaciones =
           IF Len(tomas) = 1 THEN create_dose_notifications(1, tomas[1], 0)
           ELSE create_dose_notifications(1, tomas[1], 0)
                    \o create_dose_notifications(2, tomas[2], 0)
    /\ chain = <<>>
    /\ telegram = NoTelegram
    /\ procs = [p \in Runs |-> IdleRun]
    /\ last = NoCall

\* the position after the main reminder of the current dose: the next dose
NextToma(run) ==
    [run EXCEPT !.pc = "toma", !.pendientes = Tail(@)]

\* now = timezone.now(), the config, and the query of the pending doses
RunStart(p) ==
    /\ procs[p].pc = "idle"
    /\ procs' = [procs EXCEPT ![p] =
           IF ~ telegram_configurado(config)
           THEN [@ EXCEPT !.pc = "done"]
           ELSE [pc |-> "toma", now |-> now, tipo |-> "recordatorio",
                 pendientes |->
                     OrderedTomas(tomas,
                         tomas_pendientes(tomas, now,
                             IF RunOp[p] = "enviar_recordatorios_telegram"
                             THEN now + Hours(24) ELSE now + Minutes(10)))]]
    /\ last' = [op |-> "RunStart", run |-> p]
    /\ UNCHANGED <<now, tratamientos, tomas, notificaciones, config, chain,
                   telegram>>

\* for toma in tomas_pendientes: the test of the advance reminder, with its
\* query  Notificacion.objects.filter(..., enviada=True).exists()
RunCheckAnticipado(p) ==
    /\ procs[p].pc = "toma"
    /\ procs' = [procs EXCEPT ![p] =
           IF @.pendientes = <<>> THEN [@ EXCEPT !.pc = "done"]
           ELSE IF anticipado_due(notificaciones, Head(@.pendientes),
                       tomas[Head(@.pendientes)].hora_programada - @.now,
                       config.recordatorio_anticipado)
           THEN [@ EXCEPT !.pc = "send", !.tipo = "recordatorio"]
           ELSE [@ EXCEPT !.pc = "principal"]]
    /\ last' = [op |-> "RunCheckAnticipado", run |-> p]
    /\ UNCHANGED <<now, tratamientos, tomas, notificaciones, config, chain,
                   telegram>>

\* the test of the main reminder, with its query
RunCheckPrincipal(p) ==
    /\ procs[p].pc = "principal"
    /\ procs' = [procs EXCEPT ![p] =
           IF principal_due(notificaciones, Head(@.pendientes),
                  tomas[Head(@.pendientes)].hora_programada - @.now)
           THEN [@ EXCEPT !.pc = "send", !.tipo = "principal"]
           ELSE NextToma(@)]
    /\ last' = [op |-> "RunCheckPrincipal", run |-> p]
    /\ UNCHANGED <<now, tratamientos, tomas, notificaciones, config, chain,
                   telegram>>

\* send_upcoming_reminder or send_dose_reminder: the call of the channel
RunSend(p) ==
    /\ procs[p].pc = "send"
    /\ LET sent == [toma |-> Head(procs[p].pendientes), tipo |-> procs[p].tipo]
       IN  \E success \in BOOLEAN :
               IF success
               THEN /\ telegram' = [telegram EXCEPT !.delivered = Append(@, sent)]
                    /\ procs' = [procs EXCEPT ![p].pc = "create"]
               ELSE /\ telegram' = [telegram EXCEPT !.failed = @ \cup {sent}]
                    /\ procs' = [procs EXCEPT ![p] =
                           IF @.tipo = "recordatorio"
                           THEN [@ EXCEPT !.pc = "principal"]
                           ELSE NextToma(@)]
    /\ last' = [op |-> "RunSend", run |-> p]
    /\ UNCHANGED <<now, tratamientos, tomas, notificaciones, config, chain>>

\* Notificacion.objects.create(..., enviada=True, fecha_envio=now)
RunCreate(p) ==
    /\ procs[p].pc = "create"
    /\ LET toma == Head(procs[p].pendientes)
           hora_toma == tomas[toma].hora_programada
       IN  notificaciones' = Append(notificaciones,
               NotificacionEnviada(toma, procs[p].tipo,
                   IF procs[p].tipo = "recordatorio"
                   THEN hora_toma - Minutes(5) ELSE hora_toma,
                   procs[p].now))
    /\ procs' = [procs EXCEPT ![p] =
           IF @.tipo = "recordatorio" THEN [@ EXCEPT !.pc = "principal"]
           ELSE NextToma(@)]
    /\ last' = [op |-> "RunCreate", run |-> p]
    /\ UNCHANGED <<now, tratamientos, tomas, config, chain, telegram>>

\* the run returns; the service and the browser will start another
RunEnd(p) ==
    /\ procs[p].pc = "done"
    /\ procs' = [procs EXCEPT ![p] = IdleRun]
    /\ last' = [op |-> "RunEnd", run |-> p]
    /\ UNCHANGED <<now, tratamientos, tomas, notificaciones, config, chain,
                   telegram>>

NextOverlap ==
    \E p \in Runs :
        \/ RunStart(p)
        \/ RunCheckAnticipado(p)
        \/ RunCheckPrincipal(p)
        \/ RunSend(p)
        \/ RunCreate(p)
        \/ RunEnd(p)

SpecOverlap == InitOverlap /\ [][NextOverlap]_vars

\* the number of sent=true Notification records of the kind for dose i
SentRecords(i, tipo) ==
    Cardinality({n \in DOMAIN notificaciones :
                    /\ notificaciones[n].toma = i
                    /\ notificaciones[n].tipo = tipo
                    /\ notificaciones[n].enviada})

\* C14: when two runs of the reminders overlap (their check for the sent
\* record, the delivery and the insert of the record interleave), for each
\* dose and kind at most one sent=true Notification exists and at most one
\* delivery succeeds.
C14_DedupUnderOverlap ==
    \A i \in DOMAIN tomas : \A tipo \in TIPO_CHOICES :
        SentRecords(i, tipo) <= 1 /\ Deliveries(i, tipo) <= 1

----------------------------------------------------------------------------
(* utils/notificaciones.py: the functions that write table Notificacion,     *)
(* called in any order among runs of the reminders                          *)

\* most rows of table Notificacion
MaxNotificaciones == 3

\* create_dose_notifications(dose)
CallCreateDoseNotifications ==
    /\ \E pk \in DOMAIN tomas :
           LET created == create_dose_notifications(pk, tomas[pk], now)
           IN  /\ Len(notificaciones) + Len(created) <= MaxNotificaciones
               /\ notificaciones' = notificaciones \o created
               /\ last' = [op |-> "create_dose_notifications", toma |-> pk]
    /\ UNCHANGED <<now, tratamientos, tomas, config, chain, telegram, procs>>

\* mark_notification_sent(notification)
mark_notification_sent ==
    /\ \E n \in DOMAIN notificaciones :
           /\ notificaciones' = [notificaciones EXCEPT
                                    ![n].enviada = TRUE,
                                    ![n].fecha_envio = Some(now)]
           /\ last' = [op |-> "mark_notification_sent", notification |-> n]
    /\ UNCHANGED <<now, tratamientos, tomas, config, chain, telegram, procs>>

\* Notificacion.objects.filter(toma=dose, enviada=False)
unsent_of(notification, pk) ==
    notification.toma = pk /\ ~ notification.enviada

\* cancel_dose_notifications(dose)
cancel_dose_notifications ==
    /\ \E pk \in DOMAIN tomas :
           LET kept(notification) == ~ unsent_of(notification, pk)
           IN  /\ notificaciones' = SelectSeq(notificaciones, kept)
               /\ last' = [op |-> "cancel_dose_notifications", toma |-> pk,
                           ret |-> Len(notificaciones)
                                      - Len(SelectSeq(notificaciones, kept))]
    /\ UNCHANGED <<now, tratamientos, tomas, config, chain, telegram, procs>>

\* a run of the reminders while the table has room for its records
DispatcherTick ==
    /\ enviar_recordatorios_telegram \/ api_telegram_check_reminders
    /\ Len(notificaciones') <= MaxNotificaciones

NextNotif ==
    \/ DispatchTick
    \/ CallCreateDoseNotifications
    \/ mark_notification_sent
    \/ cancel_dose_notifications
    \/ DispatcherTick

SpecNotif == InitDispatch /\ [][NextNotif]_vars

\* C24: in every state reachable by create_dose_notifications,
\* mark_notification_sent, cancel_dose_notifications and runs of the
\* reminders, each (Dose, kind) pair has at most one Notification with
\* sent = true.
C24_OneSentPerDoseAndKind ==
    \A i \in DOMAIN tomas : \A tipo \in TIPO_CHOICES : SentRecords(i, tipo) <= 1

----------------------------------------------------------------------------
(* telegram_reminder_service.py: the loop of the reminder service *)

\* most iterations of the loop
MaxIterations == 3

\* main() before  while running ; iniciado is the clock reading printed as
\* "Iniciado", errores counts the lines "Error en verificacion" printed
InitialService ==
    [pc |-> "while", running |-> TRUE, iteration |-> 0, slept |-> 0,
     errores |-> 0, iniciado |-> 0]

\* the clock reading and the doses when the service is started: with the
\* first dose of a treatment just created; six minutes before the dose the
\* dashboard has scheduled at 60, the first dose left pending or marked
\* missed; and a minute after that dose was due
ServiceStarts ==
    {<<0, <<Toma(Some(1), 0, None, "pendiente")>> >>,
     <<54, <<Toma(Some(1), 0, None, "pendiente"),
             Toma(Some(1), 60, None, "pendiente")>> >>,
     <<54, <<Toma(Some(1), 0, None, "no_tomada"),
             Toma(Some(1), 60, None, "pendiente")>> >>,
     <<61, <<Toma(Some(1), 0, None, "no_tomada"),
             Toma(Some(1), 60, None, "pendiente")>> >>}

InitService ==
    /\ \E st \in ServiceStarts : now = st[1] /\ tomas = st[2]
    /\ config \in DispatchConfigs
    /\ tratamientos = <<Tratamiento(0, None, TRUE, 1, "programada")>>
    /\ notificaciones =
           IF Len(tomas) = 1 THEN create_dose_notifications(1, tomas[1], 0)
           ELSE create_dose_notifications(1, tomas[1], 0)
                    \o create_dose_notifications(2, tomas[2], 0)
    /\ chain = <<>>
    /\ telegram = NoTelegram
    /\ procs = [main |-> [InitialService EXCEPT !.iniciado = now]]
    /\ last = NoCall

\* signal_handler(signum, frame)
signal_handler ==
    /\ procs.main.pc # "stopped"
    /\ procs.main.running
    /\ procs' = [procs EXCEPT !.main.running = FALSE]
    /\ last' = [op |-> "signal_handler"]
    /\ UNCHANGED <<now, tratamientos, tomas, notificaciones, config, chain,
                   telegram>>

\* while running: iteration += 1
ServiceWhile ==
    /\ procs.main.pc = "while"
    /\ procs.main.running => procs.main.iteration < MaxIterations
    /\ procs' = [procs EXCEPT !.main =
           IF @.running
           THEN [@ EXCEPT !.pc = "call", !.iteration = @ + 1]
           ELSE [@ EXCEPT !.pc = "stopped"]]
    /\ last' = [op |-> "while"]
    /\ UNCHANGED <<now, tratamientos, tomas, notificaciones, config, chain,
                   telegram>>

\* The mutant: the loop has no  except Exception .
AfterCall_uncaught(run, raised) ==
    IF raised THEN [run EXCEPT !.pc = "stopped"]
    ELSE [run EXCEPT !.pc = "sleep", !.slept = 0]

\* try: call_command(...) except Exception as e: print(...), then the wait
AfterCall(run, raised) ==
    IF raised
    THEN [run EXCEPT !.pc = "sleep", !.slept = 0, !.errores = @ + 1]
    ELSE [run EXCEPT !.pc = "sleep", !.slept = 0]

\* call_command('enviar_recordatorios_telegram'): the command returns, or it
\* raises after it has dealt with the first k doses
ServiceCall ==
    /\ procs.main.pc = "call"
    /\ LET pendientes ==
               IF telegram_configurado(config)
               THEN OrderedTomas(tomas,
                        tomas_pendientes(tomas, now, now + Hours(24)))
               ELSE <<>>
       IN  \E raised \in BOOLEAN, k \in 0..Len(pendientes),
              ok \in [(DOMAIN tomas) \X TIPO_CHOICES -> BOOLEAN] :
               /\ ~ raised => k = Len(pendientes)
               /\ LET db == RecordatoriosDe(SubSeq(pendientes, 1, k), FALSE, ok)
                  IN  /\ notificaciones' = db.notificaciones
                      /\ telegram' = db.telegram
                      /\ last' = [op |-> "call_command", raised |-> raised,
                                  calls |-> db.calls]
               /\ procs' = [procs EXCEPT !.main = AfterCall(@, raised)]
    /\ UNCHANGED <<now, tratamientos, tomas, config, chain>>

\* for _ in range(60): if not running: break; time.sleep(1)
ServiceSleep ==
    /\ procs.main.pc = "sleep"
    /\ IF procs.main.running /\ procs.main.slept < 60
       THEN /\ procs' = [procs EXCEPT !.main.slept = @ + 1]
            /\ now' = IF procs.main.slept = 59 THEN now + 1 ELSE now
       ELSE /\ procs' = [procs EXCEPT !.main.pc = "while"]
            /\ now' = now
    /\ last' = [op |-> "sleep"]
    /\ UNCHANGED <<tratamientos, tomas, notificaciones, config, chain, telegram>>

\* the steps of main()
ServiceStep == ServiceWhile \/ ServiceCall \/ ServiceSleep

NextService == ServiceStep \/ signal_handler

SpecService == InitService /\ [][NextService]_vars

\* main() is not held up: the command returns or raises, and a sleep ends
SpecServiceFair == SpecService /\ WF_vars(ServiceStep)

\* C19: an exception raised inside a tick of the loop is caught and does
\* not end the loop: after a tick that returned or raised the loop waits,
\* the loop ends only after a shutdown signal, and as long as no signal has
\* arrived tick k+1 is started after tick k.
C19_LoopSurvivesException ==
    /\ [][last'.op = "call_command" =>
              /\ procs'.main.pc = "sleep"
              /\ procs'.main.running = procs.main.running
              /\ procs'.main.iteration = procs.main.iteration]_vars
    /\ [](procs.main.pc = "stopped" => ~ procs.main.running)
    /\ \A k \in 1..(MaxIterations - 1) :
           (last.op = "call_command" /\ procs.main.iteration = k)
               ~> (\/ procs.main.pc = "call" /\ procs.main.iteration = k + 1
                   \/ ~ procs.main.running)

\* C19's case: the second tick has been started after a first tick that
\* raised, with no signal.
C19_Witness ==
    /\ procs.main.pc = "call"
    /\ procs.main.iteration = 2
    /\ procs.main.errores = 1
    /\ procs.main.running

\* the tick of the current minute has run
TickDone == procs.main.pc = "sleep" /\ procs.main.slept < 60

\* every tick so far has returned and every delivery attempted has succeeded
Healthy == procs.main.errores = 0 /\ telegram.failed = {}

\* dose i is 'pending' with its treatment attached, and its owner has
\* Telegram active with a chat id
Remindable(i) ==
    /\ tomas[i].estado = "pendiente"
    /\ tomas[i].tratamiento # None
    /\ config.telegram_activo
    /\ config.telegram_chat_id \notin {None, Some("")}

\* a sent=true Notification of the kind exists for dose i
SentExists(i, tipo) ==
    \E n \in DOMAIN notificaciones :
        /\ notificaciones[n].toma = i
        /\ notificaciones[n].tipo = tipo
        /\ notificaciones[n].enviada

----------------------------------------------------------------------------
\* utils/calculos_tomas.py: the loops of calculate_all_future_doses and of
\* get_doses_for_date, one iteration at a time, on the treatments that
\* TratamientoForm stores.  procs.main is the frame of the running call;
\* vuelta is the parity of the iterations the call has made.

\* Tratamiento.frecuencia_horas is DecimalField(max_digits=5,
\* decimal_places=2) without validators, and TratamientoForm adds none: the
\* min of the widget is an attribute of the HTML input.  On whole hours the
\* field accepts every value of at most three digits.
frecuencia_horas_valid(f) == f \in -999..999

LoopFrecuencias == {f \in {0, 8, 12} : frecuencia_horas_valid(f)}

LoopNows == {0, 90}

\* the instants of a list that are recorded; a loop that goes on beyond them
\* goes on without recording
MaxDoses == 4

IdleFrame ==
    [pc |-> "idle", fn |-> "none", current_time |-> 0, next_time |-> 0,
     count |-> 0, target_date |-> 0, doses |-> <<>>, vuelta |-> 0]

\* a treatment as tratamiento_create stores it, with its first dose at the
\* start, or before any dose of it exists
InitLoops ==
    /\ now \in LoopNows
    /\ \E f \in LoopFrecuencias, d \in FutureDuraciones, inicio \in {0, 120} :
           tratamientos = <<Tratamiento(inicio, d[2], d[1], f, "programada")>>
    /\ tomas \in {<<>>,
                  <<Toma(Some(1), tratamientos[1].fecha_hora_inicio, None,
                         "pendiente")>>}
    /\ notificaciones = <<>>
    /\ config = DefaultConfig
    /\ chain = <<>>
    /\ telegram = NoTelegram
    /\ procs = [main |-> IdleFrame]
    /\ last = NoCall

LoopUnchanged ==
    UNCHANGED <<now, tratamientos, tomas, notificaciones, config, chain, telegram>>

\* calculate_all_future_doses(treatment, count) up to  next_time = base_time
future_doses_call ==
    /\ procs.main.pc = "idle"
    /\ \E count \in 0..MaxCount, last_dose \in LastDoseChoices(tomas, 1) :
           procs' = [main |->
               [IdleFrame EXCEPT !.pc = "while_next_time",
                                 !.fn = "calculate_all_future_doses",
                                 !.current_time = now,
                                 !.next_time = BaseTime(tratamientos[1], last_dose),
                                 !.count = count]]
    /\ last' = [op |-> "calculate_all_future_doses"]
    /\ LoopUnchanged

\* while next_time <= current_time: next_time += timedelta(hours=frequency_hours)
future_doses_while ==
    /\ procs.main.pc = "while_next_time"
    /\ procs' = [main |->
           IF procs.main.next_time <= procs.main.current_time
           THEN [procs.main EXCEPT
                    !.next_time = @ + Hours(tratamientos[1].frecuencia_horas),
                    !.vuelta = 1 - @]
           ELSE [procs.main EXCEPT !.pc = "for_range", !.vuelta = 0]]
    /\ UNCHANGED last
    /\ LoopUnchanged

\* for _ in range(count): one iteration, or the return of the list
future_doses_for ==
    /\ procs.main.pc = "for_range"
    /\ IF /\ procs.main.count > 0
          /\ is_dose_within_treatment(tratamientos[1], procs.main.next_time)
       THEN /\ procs' = [main |->
                   [procs.main EXCEPT
                       !.doses = Append(@, procs.main.next_time),
                       !.next_time = @ + Hours(tratamientos[1].frecuencia_horas),
                       !.count = @ - 1,
                       !.vuelta = 1 - @]]
            /\ UNCHANGED last
       ELSE /\ procs' = [main |-> IdleFrame]
            /\ last' = [op |-> "calculate_all_future_doses",
                        ret |-> procs.main.doses]
    /\ LoopUnchanged

\* get_doses_for_date(treatment, target_date) up to
\* current_time = treatment.fecha_hora_inicio
doses_for_date_call ==
    /\ procs.main.pc = "idle"
    /\ \E target_date \in TargetDates :
           procs' = [main |->
               [IdleFrame EXCEPT !.pc = "while_day_start",
                                 !.fn = "get_doses_for_date",
                                 !.current_time = tratamientos[1].fecha_hora_inicio,
                                 !.target_date = target_date]]
    /\ last' = [op |-> "get_doses_for_date"]
    /\ LoopUnchanged

\* while current_time < day_start: current_time += timedelta(hours=frequency_hours)
doses_for_date_advance ==
    /\ procs.main.pc = "while_day_start"
    /\ procs' = [main |->
           IF procs.main.current_time < day_start(procs.main.target_date)
           THEN [procs.main EXCEPT
                    !.current_time = @ + Hours(tratamientos[1].frecuencia_horas),
                    !.vuelta = 1 - @]
           ELSE [procs.main EXCEPT !.pc = "while_day_end", !.vuelta = 0]]
    /\ UNCHANGED last
    /\ LoopUnchanged

\* while current_time <= day_end: one iteration, or the return of the list
doses_for_date_collect ==
    /\ procs.main.pc = "while_day_end"
    /\ IF procs.main.current_time <= day_end(procs.main.target_date)
       THEN /\ procs' = [main |->
                   [procs.main EXCEPT
                       !.doses =
                           IF /\ is_dose_within_treatment(tratamientos[1],
                                                          procs.main.current_time)
                              /\ Len(@) < MaxDoses
                           THEN Append(@, procs.main.current_time)
                           ELSE @,
                       !.current_time = @ + Hours(tratamientos[1].frecuencia_horas),
                       !.vuelta = 1 - @]]
            /\ UNCHANGED last
       ELSE /\ procs' = [main |-> IdleFrame]
            /\ last' = [op |-> "get_doses_for_date", ret |-> procs.main.doses]
    /\ LoopUnchanged

LoopStep ==
    \/ future_doses_while
    \/ future_doses_for
    \/ doses_for_date_advance
    \/ doses_for_date_collect

NextLoops == future_doses_call \/ doses_for_date_call \/ LoopStep

SpecLoops == InitLoops /\ [][NextLoops]_vars

\* the interpreter keeps running the call it has started
SpecLoopsFair == SpecLoops /\ WF_vars(LoopStep)

\* C27: on every treatment TratamientoForm stores, a call of
\* calculate_all_future_doses or of get_doses_for_date that has started
\* returns its list.
C27_LoopsTerminate ==
    (procs.main.pc # "idle") ~> (procs.main.pc = "idle")

============================================================================
